---- MODULE Spec2Model ----
(***************************************************************************)
(* Maktaba for Gemini (src/src/content.js): the normalized Library         *)
(* (folders tree + allChats dictionary + pinnedSearches), its mutating     *)
(* handlers, the quota gatekeeper of saveAndRefresh and the cross-tab      *)
(* synchronisation through chrome.storage.sync.                            *)
(*                                                                         *)
(* Modelling conventions                                                   *)
(*  - A text value (folder name, annotation, chat title, tag) is kept as   *)
(*    the number of UTF-8 bytes of its JSON-escaped content: the data      *)
(*    layer only stores, copies and measures it.                           *)
(*  - Date.now() is the variable now; it never decreases.  A time value    *)
(*    is serialized with TimeDigits digits.                                *)
(*  - null / 'root' (no folder) is the id NoFolder.                        *)
(*  - A folder context {folder, siblings, index} is the path of indices    *)
(*    from folderData.folders down to the folder; <<>> is null.            *)
(*  - chrome.storage.sync applies a set when it is called and answers      *)
(*    every tab in order: get results and onChanged events of one tab      *)
(*    are one FIFO queue (inbox).                                          *)
(***************************************************************************)
EXTENDS Integers, Sequences, FiniteSets, TLC

\* ---------------------------------------------------------------- bounds
MaxOps == 2        \* user operations that mutate folderData, over all tabs
MaxClock == 5      \* last value of Date.now()
MaxAsides == 1     \* window focus events and menus opened, over all tabs
MaxMoveMenus == 2  \* move-folder menus opened in a run of SpecMove

\* ------------------------------------------------------ program constants
QUOTA_LIMIT == 102400
SAFETY_BUFFER == 2048
TimeDigits == 13   \* digits of Date.now()
NoFolder == 0      \* null / 'root'
RecoveredNameLen == 20   \* bytes of t('recovered_folder_name', [date])
RecoveredNoteLen == 30   \* bytes of t('recovered_folder_annotation')

Tabs == {"t1", "t2"}
Chats == {"c1", "c2"}

VARIABLES
    folderData,      \* [Tabs -> Library]: each tab's global folderData
    maktaba_folders, \* chrome.storage.sync entry: [has, lib]
    inbox,           \* [Tabs -> Seq(message)]: get results and onChanged events
    maktabaStats,    \* [Tabs -> [renders, skips]]
    moveMenu,        \* [Tabs -> menu]: #move-context-menu
    moveFolderMenu,  \* [Tabs -> menu]: #move-folder-menu
    now,             \* Date.now()
    ops,             \* number of mutating user operations so far
    asides,          \* number of focus events and menus opened so far
    local            \* what folderData holds that was never written to
                     \* storage: "none", "rejected" (the gatekeeper rejected
                     \* its last save) or "unsaved" (changed without a save);
                     \* a history variable, read by no handler

\* The search box of the sidebar and what renderSearchResults made of it.
VARIABLES
    query,           \* value of #folder-search-input, a sequence of characters
    tokens,          \* the tokens parsed from query
    matchedChats     \* the chats listed as results

\* The tags typed for a chat and what is stored of them.
VARIABLES
    tagString,       \* the text typed into the tag prompt or the tag input
    chatTags         \* tags of the chat's record, each a sequence of characters

\* Backup files.
VARIABLES
    download,        \* per tab: the file exportDataAsJSON handed to the browser
    upload,          \* the file the last import read, by which tab, and the
                     \* answer to its confirm dialog
    notLibrary       \* per tab: the parsed document folderData refers to when
                     \* that document is no library (folderData[t] then holds
                     \* what can be read of it); Undefined otherwise

backup == <<download, upload, notLibrary>>

\* The extension's context.
VARIABLES
    runtimeId,       \* per tab: chrome.runtime.id is there (the context of
                     \* the content script has not been invalidated)
    uncaught         \* per tab: a handler has ended in an uncaught error

port == <<runtimeId, uncaught>>

\* The sort menu of the folder view.
VARIABLES
    sortMenu         \* per tab: #sort-context-menu and the folder object its
                     \* items hold on to

\* The variables that the library handlers neither read nor write.
others == <<query, tokens, matchedChats, tagString, chatTags, backup, port,
            sortMenu>>

vars == <<folderData, maktaba_folders, inbox, maktabaStats, moveMenu,
          moveFolderMenu, now, ops, asides, local, others>>

\* ------------------------------------------------------------ data model
EmptyLib == [folders |-> <<>>, allChats |-> <<>>, pinnedSearches |-> <<>>]

RECURSIVE SumSeq(_)
SumSeq(s) == IF s = <<>> THEN 0 ELSE Head(s) + SumSeq(Tail(s))

Max(a, b) == IF a > b THEN a ELSE b

\* allChats is an object used as a dictionary.  Object.keys and
\* JSON.stringify follow the insertion order of its keys, so it is kept as
\* the sequence of its ChatEntry values in insertion order.
RECURSIVE ObjectKeys(_)
ObjectKeys(allChats) ==
    IF allChats = <<>> THEN <<>>
    ELSE <<Head(allChats).id>> \o ObjectKeys(Tail(allChats))

KeySet(allChats) == {allChats[k].id : k \in 1..Len(allChats)}

\* The ids of a sequence of chat ids.
IdSet(chatIds) == {chatIds[k] : k \in 1..Len(chatIds)}

\* folderData.allChats[chatId] of a present key
ChatAt(allChats, chatId) ==
    allChats[CHOOSE k \in 1..Len(allChats) : allChats[k].id = chatId]

\* delete folderData.allChats[chatId]
RECURSIVE DeleteChat(_, _)
DeleteChat(allChats, chatId) ==
    IF allChats = <<>> THEN <<>>
    ELSE IF Head(allChats).id = chatId THEN DeleteChat(Tail(allChats), chatId)
         ELSE <<Head(allChats)>> \o DeleteChat(Tail(allChats), chatId)

\* folderData.allChats[chatId] = rec: a present key keeps its position
PutChat(allChats, chatId, rec) ==
    IF chatId \in KeySet(allChats)
    THEN [k \in 1..Len(allChats) |->
             IF allChats[k].id = chatId THEN rec ELSE allChats[k]]
    ELSE Append(allChats, rec)

\* Array.prototype.includes
Includes(s, x) == \E k \in 1..Len(s) : s[k] = x

\* Array.prototype.filter(id => id !== x)
RECURSIVE Without(_, _)
Without(s, x) ==
    IF s = <<>> THEN <<>>
    ELSE IF Head(s) = x THEN Without(Tail(s), x)
         ELSE <<Head(s)>> \o Without(Tail(s), x)

\* Array.prototype.splice(index, 1)
Splice(s, k) == SubSeq(s, 1, k - 1) \o SubSeq(s, k + 1, Len(s))

\* ------------------------------------------------------ tree operations
\* getFolderContext(id, list): depth-first, first match wins.
RECURSIVE getFolderContext(_, _)
getFolderContext(id, list) ==
    LET RECURSIVE scan(_)
        scan(i) ==
            IF i > Len(list) THEN <<>>
            ELSE IF list[i].id = id THEN <<i>>
            ELSE LET context == IF Len(list[i].subfolders) > 0
                                THEN getFolderContext(id, list[i].subfolders)
                                ELSE <<>>
                 IN  IF context # <<>> THEN <<i>> \o context ELSE scan(i + 1)
    IN  scan(1)

\* context.folder
RECURSIVE FolderAt(_, _)
FolderAt(list, path) ==
    IF Len(path) = 1 THEN list[path[1]]
    ELSE FolderAt(list[path[1]].subfolders, Tail(path))

\* assignment to a field of context.folder: the folder at path becomes f
RECURSIVE SetFolderAt(_, _, _)
SetFolderAt(list, path, f) ==
    IF Len(path) = 1 THEN [list EXCEPT ![path[1]] = f]
    ELSE [list EXCEPT ![path[1]].subfolders = SetFolderAt(@, Tail(path), f)]

\* context.siblings.splice(context.index, 1)
RECURSIVE SpliceAt(_, _)
SpliceAt(list, path) ==
    IF Len(path) = 1 THEN Splice(list, path[1])
    ELSE [list EXCEPT ![path[1]].subfolders = SpliceAt(@, Tail(path))]

\* Depth-first (pre-order) list of the paths of all folders: the order of
\* every traverse(list) helper of the source.
RECURSIVE Traverse(_, _)
Traverse(list, prefix) ==
    LET RECURSIVE scan(_)
        scan(i) ==
            IF i > Len(list) THEN <<>>
            ELSE <<prefix \o <<i>> >>
                 \o Traverse(list[i].subfolders, prefix \o <<i>>)
                 \o scan(i + 1)
    IN  scan(1)

AllPaths(lib) == Traverse(lib.folders, <<>>)

PathSet(lib) == {AllPaths(lib)[k] : k \in 1..Len(AllPaths(lib))}

\* Ids of all folders of the tree, at any depth.
FolderIds(lib) == {FolderAt(lib.folders, p).id : p \in PathSet(lib)}

\* SelectSeq with a predicate on paths
RECURSIVE FilterPaths(_, _, _)
FilterPaths(paths, lib, chatId) ==
    IF paths = <<>> THEN <<>>
    ELSE IF Includes(FolderAt(lib.folders, Head(paths)).chatIds, chatId)
         THEN <<Head(paths)>> \o FilterPaths(Tail(paths), lib, chatId)
         ELSE FilterPaths(Tail(paths), lib, chatId)

\* A traversal that does not descend into subfolders.
findAllFoldersForChatRootOnly(lib, chatId) ==
    FilterPaths([k \in 1..Len(lib.folders) |-> <<k>>], lib, chatId)

\* findAllFoldersForChat(chatId): the folders (as paths) holding chatId
findAllFoldersForChat(lib, chatId) == FilterPaths(AllPaths(lib), lib, chatId)

\* A traversal that collects the chatIds of the root folders only.
referencedIdsRootOnly(lib) ==
    UNION {IdSet(lib.folders[k].chatIds) : k \in 1..Len(lib.folders)}

\* referencedIds of findUnlinked: every id in any folder's chatIds
referencedIds(lib) ==
    UNION {{FolderAt(lib.folders, p).chatIds[k] :
               k \in 1..Len(FolderAt(lib.folders, p).chatIds)} : p \in PathSet(lib)}

\* findUnlinked(): Object.keys(allChats).filter(id => !referencedIds.has(id))
RECURSIVE FilterNotIn(_, _)
FilterNotIn(ids, set) ==
    IF ids = <<>> THEN <<>>
    ELSE IF Head(ids) \in set THEN FilterNotIn(Tail(ids), set)
         ELSE <<Head(ids)>> \o FilterNotIn(Tail(ids), set)

findUnlinked(lib) == FilterNotIn(ObjectKeys(lib.allChats), referencedIds(lib))

\* ------------------------------------------------------- serialization
\* Bytes of JSON.stringify of an array whose elements take the given bytes.
ArrayBytes(sizes) == 2 + SumSeq(sizes) + Max(Len(sizes) - 1, 0)

\* Bytes of a JSON string with n bytes of content.
StringBytes(n) == n + 2

ChatIdBytes(ids) == [k \in 1..Len(ids) |-> StringBytes(Len(ids[k]))]

\* {"id":..,"name":"..","chatIds":[..],"subfolders":[..],"annotation":".."}
\* and ,"sortOrder":".." once a sort order has been chosen for the folder
RECURSIVE FolderBytes(_)
FolderBytes(f) ==
    54 + TimeDigits + StringBytes(f.name)
       + ArrayBytes(ChatIdBytes(f.chatIds))
       + ArrayBytes([k \in 1..Len(f.subfolders) |-> FolderBytes(f.subfolders[k])])
       + StringBytes(f.annotation)
       + (IF "sortOrder" \in DOMAIN f
          THEN 13 + StringBytes(IF f.sortOrder = "alpha" THEN 5 ELSE 7) ELSE 0)

\* {"id":"..","title":"..","tags":[..],"annotation":"..","timestamp":..,"updatedAt":..}
ChatBytes(c) ==
    64 + StringBytes(Len(c.id)) + StringBytes(c.title)
       + ArrayBytes([k \in 1..Len(c.tags) |-> StringBytes(c.tags[k])])
       + StringBytes(c.annotation) + TimeDigits + TimeDigits

\* {"id":..,"title":"..","query":".."}
PinBytes(p) == 25 + TimeDigits + StringBytes(p.title) + StringBytes(p.query)

\* new Blob([JSON.stringify(folderData)]).size
\* {"folders":[..],"allChats":{"<id>":{..},..},"pinnedSearches":[..]}
\* A folderData without the pinnedSearches property has no such member.
bytesInUse(lib) ==
    24 + ArrayBytes([k \in 1..Len(lib.folders) |-> FolderBytes(lib.folders[k])])
       + ArrayBytes([k \in 1..Len(lib.allChats) |->
                        StringBytes(Len(lib.allChats[k].id)) + 1 + ChatBytes(lib.allChats[k])])
       + (IF "pinnedSearches" \in DOMAIN lib
          THEN 18 + ArrayBytes([k \in 1..Len(lib.pinnedSearches) |->
                                   PinBytes(lib.pinnedSearches[k])])
          ELSE 0)

\* --------------------------------------------------- initial libraries
Folder(id, name, chatIds, subfolders, annotation) ==
    [id |-> id, name |-> name, chatIds |-> chatIds,
     subfolders |-> subfolders, annotation |-> annotation]

ChatEntry(id, title, tags, annotation, timestamp, updatedAt) ==
    [id |-> id, title |-> title, tags |-> tags, annotation |-> annotation,
     timestamp |-> timestamp, updatedAt |-> updatedAt]

\* A library an earlier session can have left in chrome.storage.sync:
\* root folder 1 with subfolder 2 [c1], root folder 3 [c1] whose annotation
\* has pad bytes, and the chats c1 and c2 (c2 unlinked).
StoredLib(pad) ==
    [folders |->
        << Folder(1, 4, <<>>, << Folder(2, 4, <<"c1">>, <<>>, 0) >>, 0),
           Folder(3, 4, <<"c1">>, <<>>, pad) >>,
     allChats |->
        << ChatEntry("c1", 5, <<4>>, 0, 1, 1),
           ChatEntry("c2", 5, <<4>>, 0, 2, 3) >>,
     pinnedSearches |-> <<>>]

SmallLib == StoredLib(0)

\* The same library 5 bytes below the gatekeeper's limit.
NearFullLib ==
    StoredLib(QUOTA_LIMIT - SAFETY_BUFFER - 5 - bytesInUse(SmallLib))

Absent == [has |-> FALSE, lib |-> EmptyLib]
Present(lib) == [has |-> TRUE, lib |-> lib]

\* ----------------------------------------------------------- handlers
\* Each handler is the function from the tab's folderData (and its inputs)
\* to [lib: folderData afterwards, saved: whether saveAndRefresh was called].
Result(lib, saved) == [lib |-> lib, saved |-> saved]

\* createNewFolder(parentId), with the prompt's answer name (non-empty)
createNewFolder(lib, parentId, name, time) ==
    LET newFolder == Folder(time, name, <<>>, <<>>, 0)
        context == getFolderContext(parentId, lib.folders)
    IN  IF parentId # NoFolder
        THEN IF context # <<>>
             THEN LET parent == FolderAt(lib.folders, context)
                  IN  Result([lib EXCEPT !.folders = SetFolderAt(@, context,
                                 [parent EXCEPT !.subfolders = Append(@, newFolder)])],
                             TRUE)
             ELSE Result(lib, FALSE)
        ELSE Result([lib EXCEPT !.folders = Append(@, newFolder)], TRUE)

\* tags.map(t => `#${t.trim().replace(/^#+/, '')}`): a tag given by the
\* bytes of its body becomes the marker plus the body.
sanitizedTags(tags) == [k \in 1..Len(tags) |-> 1 + tags[k]]

\* A link that pushes the id whether or not the folder holds it.
saveChatToFolderAlwaysPush(lib, folderId, chatId, chatTitle, tags, annotation, time) ==
    LET context == getFolderContext(folderId, lib.folders)
        folder == FolderAt(lib.folders, context)
        timestamp == IF chatId \in KeySet(lib.allChats)
                        /\ ChatAt(lib.allChats, chatId).timestamp # 0
                     THEN ChatAt(lib.allChats, chatId).timestamp
                     ELSE time
        upserted == [lib EXCEPT !.allChats = PutChat(@, chatId,
                        ChatEntry(chatId, chatTitle, sanitizedTags(tags),
                                  annotation, timestamp, time))]
    IN  IF context = <<>> THEN Result(lib, FALSE)
        ELSE Result([upserted EXCEPT !.folders = SetFolderAt(@, context,
                        [folder EXCEPT !.chatIds = Append(@, chatId)])], TRUE)

\* saveChatToFolder(folderId, chatId, chatTitle, tags, annotation)
saveChatToFolder(lib, folderId, chatId, chatTitle, tags, annotation, time) ==
    LET context == getFolderContext(folderId, lib.folders)
        folder == FolderAt(lib.folders, context)
        timestamp == IF chatId \in KeySet(lib.allChats)
                        /\ ChatAt(lib.allChats, chatId).timestamp # 0
                     THEN ChatAt(lib.allChats, chatId).timestamp
                     ELSE time
        upserted == [lib EXCEPT !.allChats = PutChat(@, chatId,
                        ChatEntry(chatId, chatTitle, sanitizedTags(tags),
                                  annotation, timestamp, time))]
    IN  IF context = <<>> THEN Result(lib, FALSE)
        ELSE IF ~Includes(folder.chatIds, chatId)
             THEN Result([upserted EXCEPT !.folders = SetFolderAt(@, context,
                             [folder EXCEPT !.chatIds = Append(@, chatId)])],
                         TRUE)
             ELSE Result(upserted, FALSE)

\* unlinked.forEach(id => delete folderData.allChats[id])
RECURSIVE DeleteChats(_, _)
DeleteChats(allChats, ids) ==
    IF ids = <<>> THEN allChats
    ELSE DeleteChats(DeleteChat(allChats, Head(ids)), Tail(ids))

\* A deletion that also deletes the records of the folder's own chats.
deleteFolderCascade(lib, id) ==
    LET context == getFolderContext(id, lib.folders)
    IN  IF context # <<>>
        THEN Result([folders |-> SpliceAt(lib.folders, context),
                     allChats |-> DeleteChats(lib.allChats,
                                      FolderAt(lib.folders, context).chatIds),
                     pinnedSearches |-> lib.pinnedSearches], TRUE)
        ELSE Result(lib, FALSE)

\* deleteFolder(id), confirmed
deleteFolder(lib, id) ==
    LET context == getFolderContext(id, lib.folders)
    IN  IF context # <<>>
        THEN Result([lib EXCEPT !.folders = SpliceAt(@, context)], TRUE)
        ELSE Result(lib, FALSE)

\* containingFolders.forEach(folder => folder.chatIds = folder.chatIds.filter(..))
RECURSIVE FilterFromFolders(_, _, _)
FilterFromFolders(folders, paths, chatId) ==
    IF paths = <<>> THEN folders
    ELSE FilterFromFolders(
             SetFolderAt(folders, Head(paths),
                 [FolderAt(folders, Head(paths)) EXCEPT
                     !.chatIds = Without(@, chatId)]),
             Tail(paths), chatId)

\* An unlink that never reclaims the record, with the same global delete.
removeChatFromFolderNoReclaim(lib, chatId, folderId) ==
    IF folderId = NoFolder
    THEN Result([folders |-> FilterFromFolders(lib.folders,
                                 findAllFoldersForChat(lib, chatId), chatId),
                 allChats |-> DeleteChat(lib.allChats, chatId),
                 pinnedSearches |-> lib.pinnedSearches], TRUE)
    ELSE LET context == getFolderContext(folderId, lib.folders)
             folder == FolderAt(lib.folders, context)
         IN  IF context = <<>> THEN Result(lib, FALSE)
             ELSE Result([lib EXCEPT !.folders = SetFolderAt(@, context,
                             [folder EXCEPT !.chatIds = Without(@, chatId)])], TRUE)

\* A global delete that clears the first containing folder only, with the
\* same unlink.
removeChatFromFolderFirstOnly(lib, chatId, folderId) ==
    IF folderId = NoFolder
    THEN LET containingFolders == findAllFoldersForChat(lib, chatId)
         IN  Result([folders |-> FilterFromFolders(lib.folders,
                                     SubSeq(containingFolders, 1, 1), chatId),
                     allChats |-> DeleteChat(lib.allChats, chatId),
                     pinnedSearches |-> lib.pinnedSearches], TRUE)
    ELSE LET context == getFolderContext(folderId, lib.folders)
             folder == FolderAt(lib.folders, context)
             removed == [lib EXCEPT !.folders = SetFolderAt(@, context,
                            [folder EXCEPT !.chatIds = Without(@, chatId)])]
         IN  IF context = <<>> THEN Result(lib, FALSE)
             ELSE IF Len(findAllFoldersForChat(removed, chatId)) = 0
                  THEN Result([removed EXCEPT !.allChats = DeleteChat(@, chatId)], TRUE)
                  ELSE Result(removed, TRUE)

\* removeChatFromFolder(chatId, folderId), every confirm answered yes
removeChatFromFolder(lib, chatId, folderId) ==
    IF folderId = NoFolder
    THEN LET containingFolders == findAllFoldersForChat(lib, chatId)
         IN  Result([folders |-> FilterFromFolders(lib.folders, containingFolders, chatId),
                     allChats |-> DeleteChat(lib.allChats, chatId),
                     pinnedSearches |-> lib.pinnedSearches], TRUE)
    ELSE LET context == getFolderContext(folderId, lib.folders)
             folder == FolderAt(lib.folders, context)
             removed == [lib EXCEPT !.folders = SetFolderAt(@, context,
                            [folder EXCEPT !.chatIds = Without(@, chatId)])]
             remainingLinks == findAllFoldersForChat(removed, chatId)
         IN  IF context = <<>> THEN Result(lib, FALSE)
             ELSE IF Len(remainingLinks) = 0
                  THEN Result([removed EXCEPT !.allChats = DeleteChat(@, chatId)], TRUE)
                  ELSE Result(removed, TRUE)

\* A move that pushes the chat to the target without looking for it there.
handleMoveChatAlwaysPush(lib, chatId, sourceFolderId, targetFolderId) ==
    LET srcCtx == getFolderContext(sourceFolderId, lib.folders)
        tgtCtx == getFolderContext(targetFolderId, lib.folders)
        targetFolder == FolderAt(lib.folders, tgtCtx)
        pushed == SetFolderAt(lib.folders, tgtCtx,
                      [targetFolder EXCEPT !.chatIds = Append(@, chatId)])
        sourceFolder == FolderAt(pushed, srcCtx)
    IN  IF srcCtx = <<>> \/ tgtCtx = <<>> THEN Result(lib, FALSE)
        ELSE Result([lib EXCEPT !.folders = SetFolderAt(pushed, srcCtx,
                        [sourceFolder EXCEPT !.chatIds = Without(@, chatId)])],
                    TRUE)

\* handleMoveChat(chatId, sourceFolderId, targetFolderId)
handleMoveChat(lib, chatId, sourceFolderId, targetFolderId) ==
    LET srcCtx == getFolderContext(sourceFolderId, lib.folders)
        tgtCtx == getFolderContext(targetFolderId, lib.folders)
        targetFolder == FolderAt(lib.folders, tgtCtx)
        pushed == IF ~Includes(targetFolder.chatIds, chatId)
                  THEN SetFolderAt(lib.folders, tgtCtx,
                           [targetFolder EXCEPT !.chatIds = Append(@, chatId)])
                  ELSE lib.folders
        sourceFolder == FolderAt(pushed, srcCtx)
    IN  IF srcCtx = <<>> \/ tgtCtx = <<>> THEN Result(lib, FALSE)
        ELSE Result([lib EXCEPT !.folders = SetFolderAt(pushed, srcCtx,
                        [sourceFolder EXCEPT !.chatIds = Without(@, chatId)])],
                    TRUE)

\* A move that puts the folder in front of the target's children.
handleMoveFolderUnshift(lib, folderId, targetParentId) ==
    LET context == getFolderContext(folderId, lib.folders)
        folderToMove == FolderAt(lib.folders, context)
        spliced == SpliceAt(lib.folders, context)
        targetContext == getFolderContext(targetParentId, spliced)
        target == FolderAt(spliced, targetContext)
    IN  IF context = <<>> THEN Result(lib, FALSE)
        ELSE IF targetParentId = NoFolder
             THEN Result([lib EXCEPT !.folders = <<folderToMove>> \o spliced], TRUE)
             ELSE IF targetContext # <<>>
                  THEN Result([lib EXCEPT !.folders = SetFolderAt(spliced, targetContext,
                                  [target EXCEPT !.subfolders = <<folderToMove>> \o @])],
                              TRUE)
                  ELSE Result([lib EXCEPT !.folders = spliced], TRUE)

\* handleMoveFolder(folderId, targetParentId)
handleMoveFolder(lib, folderId, targetParentId) ==
    LET context == getFolderContext(folderId, lib.folders)
        folderToMove == FolderAt(lib.folders, context)
        spliced == SpliceAt(lib.folders, context)
        targetContext == getFolderContext(targetParentId, spliced)
        target == FolderAt(spliced, targetContext)
    IN  IF context = <<>> THEN Result(lib, FALSE)
        ELSE IF targetParentId = NoFolder
             THEN Result([lib EXCEPT !.folders = Append(spliced, folderToMove)], TRUE)
             ELSE IF targetContext # <<>>
                  THEN Result([lib EXCEPT !.folders = SetFolderAt(spliced, targetContext,
                                  [target EXCEPT !.subfolders = Append(@, folderToMove)])],
                              TRUE)
                  ELSE Result([lib EXCEPT !.folders = spliced], TRUE)

\* A prune that deletes the first unlinked record only.
pruneUnlinkedFirstOnly(lib) ==
    LET unlinked == findUnlinked(lib)
    IN  IF Len(unlinked) = 0 THEN Result(lib, FALSE)
        ELSE Result([lib EXCEPT !.allChats = DeleteChat(@, Head(unlinked))], TRUE)

\* pruneUnlinked(), confirmed
pruneUnlinked(lib) ==
    LET unlinked == findUnlinked(lib)
    IN  IF Len(unlinked) = 0 THEN Result(lib, FALSE)
        ELSE Result([lib EXCEPT !.allChats = DeleteChats(@, unlinked)], TRUE)

\* An archive whose recovery folder takes every recorded chat.
archiveUnlinkedAllKeys(lib, time) ==
    LET unlinkedIds == findUnlinked(lib)
        recoveryFolder == Folder(time, RecoveredNameLen, ObjectKeys(lib.allChats),
                                 <<>>, RecoveredNoteLen)
    IN  IF Len(unlinkedIds) = 0 THEN Result(lib, FALSE)
        ELSE Result([lib EXCEPT !.folders = Append(@, recoveryFolder)], TRUE)

\* archiveUnlinked(), confirmed
archiveUnlinked(lib, time) ==
    LET unlinkedIds == findUnlinked(lib)
        recoveryFolder == Folder(time, RecoveredNameLen, unlinkedIds, <<>>,
                                 RecoveredNoteLen)
    IN  IF Len(unlinkedIds) = 0 THEN Result(lib, FALSE)
        ELSE Result([lib EXCEPT !.folders = Append(@, recoveryFolder)], TRUE)

\* editFolderAnnotation(id), the prompt answered with newNote
editFolderAnnotation(lib, id, newNote) ==
    LET context == getFolderContext(id, lib.folders)
        folder == FolderAt(lib.folders, context)
    IN  IF context = <<>> THEN Result(lib, FALSE)
        ELSE Result([lib EXCEPT !.folders = SetFolderAt(@, context,
                        [folder EXCEPT !.annotation = newNote])], TRUE)

\* -------------------------------------------------------------- menus
NoMoveMenu == [open |-> FALSE, chatId |-> "", sourceFolderId |-> NoFolder,
               targets |-> {}]
NoMoveFolderMenu == [open |-> FALSE, folderId |-> NoFolder, targets |-> {},
                     makeRoot |-> FALSE]
NoSortMenu == [open |-> FALSE, folderId |-> NoFolder, detached |-> FALSE]

\* showMoveMenu(x, y, chatId, sourceFolderId): the folders offered
MoveTargets(lib, chatId, sourceFolderId) ==
    {FolderAt(lib.folders, p).id : p \in
        {q \in PathSet(lib) :
            /\ FolderAt(lib.folders, q).id # sourceFolderId
            /\ ~Includes(FolderAt(lib.folders, q).chatIds, chatId)}}

showMoveMenu(lib, chatId, sourceFolderId) ==
    [open |-> TRUE, chatId |-> chatId, sourceFolderId |-> sourceFolderId,
     targets |-> MoveTargets(lib, chatId, sourceFolderId)]

\* isDescendant(parent, childId) of showMoveFolderMenu
RECURSIVE isDescendant(_, _)
isDescendant(parent, childId) ==
    \/ \E k \in 1..Len(parent.subfolders) : parent.subfolders[k].id = childId
    \/ \E k \in 1..Len(parent.subfolders) :
           isDescendant(parent.subfolders[k], childId)

\* traverse(list) of showMoveFolderMenu: the ids pushed to validTargets
RECURSIVE validTargets(_, _, _)
validTargets(list, folderId, folderMoving) ==
    UNION {IF list[k].id = folderId THEN {}
           ELSE IF isDescendant(folderMoving, list[k].id) THEN {}
           ELSE {list[k].id} \cup validTargets(list[k].subfolders, folderId, folderMoving)
           : k \in 1..Len(list)}

\* showMoveFolderMenu(x, y, folderId) for a folder of the tree
showMoveFolderMenu(lib, folderId) ==
    [open |-> TRUE, folderId |-> folderId,
     targets |-> validTargets(lib.folders, folderId,
                     FolderAt(lib.folders, getFolderContext(folderId, lib.folders))),
     makeRoot |-> ~(\E k \in 1..Len(lib.folders) : lib.folders[k].id = folderId)]

\* The chats showFolderContents(folderId) renders, with their buttons.
ShownChats(lib, folderId) ==
    LET folder == FolderAt(lib.folders, getFolderContext(folderId, lib.folders))
    IN  {folder.chatIds[k] : k \in 1..Len(folder.chatIds)} \cap KeySet(lib.allChats)

\* The root folders: their cards carry the new-subfolder button.
RootIds(lib) == {lib.folders[k].id : k \in 1..Len(lib.folders)}

\* ------------------------------------------------------ persistence path
\* Messages on their way to a tab: the changes object of an onChanged event
\* (newValue) and the result of a get.  The field by records what caused the
\* message: the tab whose set caused the event, or the caller of loadData
\* ("init" or "focus"); no handler reads it.
Changed(lib, by) == [type |-> "changed", has |-> TRUE, lib |-> lib, by |-> by]
GetResult(entry, by) == [type |-> "get", has |-> entry.has, lib |-> entry.lib,
                         by |-> by]

\* A gatekeeper that compares with the quota alone.
QuotaExceededNoBuffer(bytes) == bytes > QUOTA_LIMIT

\* A gatekeeper that rejects the limit itself.
QuotaExceededAtLimit(bytes) == bytes >= QUOTA_LIMIT - SAFETY_BUFFER

\* if (bytesInUse > (QUOTA_LIMIT - SAFETY_BUFFER)) of saveAndRefresh
QuotaExceeded(bytes) == bytes > QUOTA_LIMIT - SAFETY_BUFFER

\* A storage area that announces a set to the other tabs only.
saveAndRefreshNotifyOthers(t, lib) ==
    LET written == ~QuotaExceeded(bytesInUse(lib))
    IN  /\ folderData' = [folderData EXCEPT ![t] = lib]
        /\ maktabaStats' = [maktabaStats EXCEPT ![t].renders = @ + 1]
        /\ maktaba_folders' = IF written THEN Present(lib) ELSE maktaba_folders
        /\ inbox' = IF written /\ maktaba_folders # Present(lib)
                     THEN [u \in Tabs |-> IF u = t THEN inbox[u]
                                          ELSE Append(inbox[u], Changed(lib, t))]
                     ELSE inbox
        /\ local' = [local EXCEPT ![t] = IF written THEN "none" ELSE "rejected"]

\* saveAndRefresh() of tab t whose folderData is lib.  chrome.storage.sync
\* takes every set it is given (chrome.runtime.lastError stays unset); a set
\* that changes the entry is announced to every tab, the writer included.
\* again is the number of refreshFolderList() calls the handler makes after
\* saveAndRefresh() has returned.
saveAndRefreshThen(t, lib, again) ==
    LET written == runtimeId[t] /\ ~QuotaExceeded(bytesInUse(lib))
    IN  /\ folderData' = [folderData EXCEPT ![t] = lib]
        /\ maktabaStats' = [maktabaStats EXCEPT ![t].renders = @ + 1 + again]
        /\ maktaba_folders' = IF written THEN Present(lib) ELSE maktaba_folders
        /\ inbox' = IF written /\ maktaba_folders # Present(lib)
                     THEN [u \in Tabs |-> Append(inbox[u], Changed(lib, t))]
                     ELSE inbox
        /\ local' = [local EXCEPT ![t] = IF written THEN "none"
                                         ELSE IF runtimeId[t] THEN "rejected"
                                         ELSE "unsaved"]

saveAndRefresh(t, lib) == saveAndRefreshThen(t, lib, 0)

\* The end of a handler of tab t that returned res.
Finish(t, res) ==
    IF res.saved THEN saveAndRefresh(t, res.lib)
    ELSE /\ folderData' = [folderData EXCEPT ![t] = res.lib]
         /\ local' = [local EXCEPT ![t] =
                          IF res.lib # folderData[t] /\ @ = "none" THEN "unsaved" ELSE @]
         /\ UNCHANGED <<maktabaStats, maktaba_folders, inbox>>

\* A click that reaches the document listeners closes the open menus.
CloseMenus(t) ==
    /\ moveMenu' = [moveMenu EXCEPT ![t] = NoMoveMenu]
    /\ moveFolderMenu' = [moveFolderMenu EXCEPT ![t] = NoMoveFolderMenu]

\* The values Date.now() can return next.
Times == {time \in {now, now + 1} : time <= MaxClock}

\* A user operation that mutates folderData, ending at Date.now() = time.
UserOp(time) ==
    /\ ops' = ops + 1
    /\ now' = time
    /\ UNCHANGED asides

\* ------------------------------------------------------- JSON documents
\* A JSON value: type, the number or the bytes of a text (n), the text of a
\* chat id (text), the elements or members (items), and the key under which
\* the value is a member of an object ("" elsewhere).
JValue(type, n, text, items) ==
    [key |-> "", type |-> type, n |-> n, text |-> text, items |-> items]

Undefined == JValue("undefined", 0, "", <<>>)
JNull == JValue("null", 0, "", <<>>)
JNum(n) == JValue("number", n, "", <<>>)
JText(n) == JValue("string", n, "", <<>>)
JKey(id) == JValue("string", Len(id), id, <<>>)
JArr(items) == JValue("array", 0, "", items)
JObj(members) == JValue("object", 0, "", members)
Member(key, value) == [value EXCEPT !.key = key]

\* value[key]: the last member with that key, undefined without one.
Get(value, key) ==
    LET at == {k \in 1..Len(value.items) : value.items[k].key = key}
    IN  IF value.type # "object" \/ at = {} THEN Undefined
        ELSE Member("", value.items[CHOOSE k \in at : \A j \in at : j <= k])

\* if (value)
Truthy(value) ==
    \/ value.type \in {"object", "array"}
    \/ value.type \in {"number", "string"} /\ value.n # 0

RECURSIVE FolderDoc(_)
FolderDoc(f) ==
    JObj(<< Member("id", JNum(f.id)),
            Member("name", JText(f.name)),
            Member("chatIds", JArr([k \in 1..Len(f.chatIds) |-> JKey(f.chatIds[k])])),
            Member("subfolders",
                   JArr([k \in 1..Len(f.subfolders) |-> FolderDoc(f.subfolders[k])])),
            Member("annotation", JText(f.annotation)) >>)

ChatDoc(c) ==
    JObj(<< Member("id", JKey(c.id)),
            Member("title", JText(c.title)),
            Member("tags", JArr([k \in 1..Len(c.tags) |-> JText(c.tags[k])])),
            Member("annotation", JText(c.annotation)),
            Member("timestamp", JNum(c.timestamp)),
            Member("updatedAt", JNum(c.updatedAt)) >>)

PinDoc(p) ==
    JObj(<< Member("id", JNum(p.id)),
            Member("title", JText(p.title)),
            Member("query", JText(p.query)) >>)

\* A serialisation that names the members to keep and leaves the pins out.
stringifyNoPins(lib) ==
    JObj(<< Member("folders",
                   JArr([k \in 1..Len(lib.folders) |-> FolderDoc(lib.folders[k])])),
            Member("allChats",
                   JObj([k \in 1..Len(lib.allChats) |->
                            Member(lib.allChats[k].id, ChatDoc(lib.allChats[k]))])) >>)

\* JSON.stringify(folderData, null, 2), as the value the text denotes.
stringify(lib) ==
    JObj(<< Member("folders",
                   JArr([k \in 1..Len(lib.folders) |-> FolderDoc(lib.folders[k])])),
            Member("allChats",
                   JObj([k \in 1..Len(lib.allChats) |->
                            Member(lib.allChats[k].id, ChatDoc(lib.allChats[k]))])),
            Member("pinnedSearches",
                   JArr([k \in 1..Len(lib.pinnedSearches) |->
                            PinDoc(lib.pinnedSearches[k])])) >>)

\* The elements of an array; nothing to walk in any other value.
Items(value) == IF value.type = "array" THEN value.items ELSE <<>>

\* What the handlers read of a parsed folder, chat record and pin.
RECURSIVE AsFolder(_)
AsFolder(v) ==
    [id |-> Get(v, "id").n,
     name |-> Get(v, "name").n,
     chatIds |-> [k \in 1..Len(Items(Get(v, "chatIds"))) |->
                     Items(Get(v, "chatIds"))[k].text],
     subfolders |-> [k \in 1..Len(Items(Get(v, "subfolders"))) |->
                        AsFolder(Items(Get(v, "subfolders"))[k])],
     annotation |-> Get(v, "annotation").n]

AsChat(v) ==
    [id |-> Get(v, "id").text,
     title |-> Get(v, "title").n,
     tags |-> [k \in 1..Len(Items(Get(v, "tags"))) |-> Items(Get(v, "tags"))[k].n],
     annotation |-> Get(v, "annotation").n,
     timestamp |-> Get(v, "timestamp").n,
     updatedAt |-> Get(v, "updatedAt").n]

AsPin(v) ==
    [id |-> Get(v, "id").n, title |-> Get(v, "title").n, query |-> Get(v, "query").n]

\* What the handlers read of a parsed document as folderData.
Library(v) ==
    [folders |-> [k \in 1..Len(Items(Get(v, "folders"))) |->
                     AsFolder(Items(Get(v, "folders"))[k])],
     allChats |-> [k \in 1..Len(Get(v, "allChats").items) |->
                      AsChat(Get(v, "allChats").items[k])],
     pinnedSearches |-> [k \in 1..Len(Items(Get(v, "pinnedSearches"))) |->
                            AsPin(Items(Get(v, "pinnedSearches"))[k])]]

\* folderData = importedData: a document without the pinnedSearches member
\* is a folderData without that property.
AsFolderData(v) ==
    IF Get(v, "pinnedSearches") = Undefined
    THEN [folders |-> Library(v).folders, allChats |-> Library(v).allChats]
    ELSE Library(v)

\* A file: text that JSON.parse takes ("json") or rejects ("bad").
File(syntax, value) == [syntax |-> syntax, value |-> value]
NoFile == File("none", Undefined)
NoUpload == [tab |-> "none", file |-> NoFile, confirmed |-> FALSE, at |-> 0]

\* ------------------------------------------------------------- inputs
Names == {4}                \* folder names typed in the prompt (bytes)
Titles == {5}               \* chat titles read from the page (bytes)
TagInputs == {<<3>>}        \* tag lists typed (bytes of each body)
ChatNotes == {0}            \* chat annotations typed (bytes)
FolderNotes == {6}          \* folder annotations typed (bytes)

\* ------------------------------------------------------------ actions
\* init(): the sidebar is rendered, the listeners are set and loadData() has
\* asked for the entry.
initWith(entries) ==
    /\ maktaba_folders \in entries
    /\ folderData = [t \in Tabs |-> EmptyLib]
    \* init(): loadData() has asked for the entry, the answer is on its way
    /\ inbox = [t \in Tabs |-> <<GetResult(maktaba_folders, "init")>>]
    /\ maktabaStats = [t \in Tabs |-> [renders |-> 0, skips |-> 0]]
    /\ moveMenu = [t \in Tabs |-> NoMoveMenu]
    /\ moveFolderMenu = [t \in Tabs |-> NoMoveFolderMenu]
    /\ now = 4
    /\ ops = 0
    /\ asides = 0
    /\ local = [t \in Tabs |-> "none"]
    /\ runtimeId = [t \in Tabs |-> TRUE]
    /\ uncaught = [t \in Tabs |-> FALSE]
    /\ sortMenu = [t \in Tabs |-> NoSortMenu]

\* The browser holds no library or the one of an earlier session.
init == initWith({Absent, Present(NearFullLib)})

\* The search box is empty and nothing is listed.
NoSearch ==
    /\ query = <<>>
    /\ tokens = <<>>
    /\ matchedChats = <<>>

\* No tags have been typed.
NoTags ==
    /\ tagString = <<>>
    /\ chatTags = <<>>

\* Nothing has been exported or imported.
NoBackup ==
    /\ download = [t \in Tabs |-> NoFile]
    /\ upload = NoUpload
    /\ notLibrary = [t \in Tabs |-> Undefined]

Init == init /\ NoSearch /\ NoTags /\ NoBackup

\* window 'focus' listener: loadData() calls chrome.storage.sync.get
Focus(t) ==
    /\ asides' = asides + 1
    /\ inbox' = IF runtimeId[t]
                 THEN [inbox EXCEPT ![t] = Append(@, GetResult(maktaba_folders, "focus"))]
                 ELSE inbox
    /\ UNCHANGED <<folderData, maktaba_folders, maktabaStats, moveMenu,
                   moveFolderMenu, now, ops, local>>

\* A callback that leaves folderData alone when the get found no entry.
loadDataCallbackKeep(t, msg) ==
    /\ folderData' = [folderData EXCEPT ![t] = IF msg.has THEN msg.lib ELSE @]
    /\ maktabaStats' = [maktabaStats EXCEPT ![t].renders = @ + 1]
    /\ local' = [local EXCEPT ![t] = "none"]

\* if (!folderData.pinnedSearches) folderData.pinnedSearches = []
withPinnedSearches(lib) ==
    IF "pinnedSearches" \in DOMAIN lib THEN lib
    ELSE [x \in DOMAIN lib \cup {"pinnedSearches"} |->
             IF x = "pinnedSearches" THEN <<>> ELSE lib[x]]

\* The callback of loadData's get: folderData is replaced and the list refreshed.
loadDataCallback(t, msg) ==
    /\ folderData' = [folderData EXCEPT ![t] = IF msg.has THEN withPinnedSearches(msg.lib)
                                               ELSE EmptyLib]
    /\ maktabaStats' = [maktabaStats EXCEPT ![t].renders = @ + 1]
    /\ local' = [local EXCEPT ![t] = "none"]

\* A listener without the comparison: every notification replaces folderData
\* and refreshes the list.
onChangedAlways(t, msg) ==
    /\ folderData' = [folderData EXCEPT ![t] = msg.lib]
    /\ maktabaStats' = [maktabaStats EXCEPT ![t].renders = @ + 1]
    /\ local' = [local EXCEPT ![t] = "none"]

\* A listener that ignores every notification.
onChangedIgnored(t, msg) == UNCHANGED <<folderData, maktabaStats, local>>

\* The chrome.storage.onChanged listener of setupAutoSync.
onChanged(t, msg) ==
    IF folderData[t] # msg.lib
    THEN /\ folderData' = [folderData EXCEPT ![t] = msg.lib]
         /\ maktabaStats' = [maktabaStats EXCEPT ![t].renders = @ + 1]
         /\ local' = [local EXCEPT ![t] = "none"]
    ELSE UNCHANGED <<folderData, maktabaStats, local>>

\* Tab t handles the next answer of chrome.storage.sync.  An invalidated
\* context is delivered no callback and no event.
Receive(t) ==
    /\ runtimeId[t]
    /\ inbox[t] # <<>>
    /\ inbox' = [inbox EXCEPT ![t] = Tail(@)]
    /\ IF Head(inbox[t]).type = "get"
       THEN loadDataCallback(t, Head(inbox[t]))
       ELSE onChanged(t, Head(inbox[t]))
    /\ UNCHANGED <<maktaba_folders, moveMenu, moveFolderMenu, now,
                   ops, asides>>

CreateNewFolder(t) ==
    \E parentId \in {NoFolder} \cup RootIds(folderData[t]), name \in Names,
       time \in Times :
        /\ UserOp(time)
        /\ Finish(t, createNewFolder(folderData[t], parentId, name, time))
        /\ CloseMenus(t)

SaveChatToFolder(t) ==
    \E folderId \in FolderIds(folderData[t]), chatId \in Chats,
       chatTitle \in Titles, tags \in TagInputs, annotation \in ChatNotes,
       time \in Times :
        /\ UserOp(time)
        /\ Finish(t, saveChatToFolder(folderData[t], folderId, chatId, chatTitle,
                                      tags, annotation, time))
        /\ CloseMenus(t)

\* The delete button stops the click: open menus stay open.
DeleteFolder(t) ==
    \E id \in FolderIds(folderData[t]) :
        /\ UserOp(now)
        /\ Finish(t, deleteFolder(folderData[t], id))
        /\ UNCHANGED <<moveMenu, moveFolderMenu>>

\* The remove button of a chat in the folder view (unlink).
Unlink(t) ==
    \E folderId \in FolderIds(folderData[t]) :
      \E chatId \in ShownChats(folderData[t], folderId) :
        /\ UserOp(now)
        /\ Finish(t, removeChatFromFolder(folderData[t], chatId, folderId))
        /\ CloseMenus(t)

\* The remove button of a chat in the search view (global delete).
GlobalDelete(t) ==
    \E chatId \in KeySet(folderData[t].allChats) :
        /\ UserOp(now)
        /\ Finish(t, removeChatFromFolder(folderData[t], chatId, NoFolder))
        /\ CloseMenus(t)

\* The move button of a chat in the folder view opens the move menu.
ShowMoveMenu(t) ==
    \E folderId \in FolderIds(folderData[t]) :
      \E chatId \in ShownChats(folderData[t], folderId) :
        /\ asides' = asides + 1
        /\ moveMenu' = [moveMenu EXCEPT ![t] =
                           showMoveMenu(folderData[t], chatId, folderId)]
        /\ moveFolderMenu' = [moveFolderMenu EXCEPT ![t] = NoMoveFolderMenu]
        /\ UNCHANGED <<folderData, maktaba_folders, inbox, maktabaStats,
                       now, ops, local>>

\* A click on an item of the move menu.
ClickMoveMenu(t) ==
    \E targetFolderId \in moveMenu[t].targets :
        /\ moveMenu[t].open
        /\ UserOp(now)
        /\ Finish(t, handleMoveChat(folderData[t], moveMenu[t].chatId,
                         moveMenu[t].sourceFolderId, targetFolderId))
        /\ CloseMenus(t)

\* The move button of a folder card stops the click and opens the menu.
ShowMoveFolderMenu(t) ==
    \E folderId \in FolderIds(folderData[t]) :
        /\ asides' = asides + 1
        /\ moveFolderMenu' = [moveFolderMenu EXCEPT ![t] =
                                 showMoveFolderMenu(folderData[t], folderId)]
        /\ UNCHANGED <<folderData, maktaba_folders, inbox, maktabaStats,
                       moveMenu, now, ops, local>>

\* A click on an item of the move-folder menu ('make root' is NoFolder).
ClickMoveFolderMenu(t) ==
    \E targetParentId \in moveFolderMenu[t].targets \cup
            (IF moveFolderMenu[t].makeRoot THEN {NoFolder} ELSE {}) :
        /\ moveFolderMenu[t].open
        /\ UserOp(now)
        /\ Finish(t, handleMoveFolder(folderData[t], moveFolderMenu[t].folderId,
                                      targetParentId))
        /\ CloseMenus(t)

PruneUnlinked(t) ==
        /\ Len(findUnlinked(folderData[t])) > 0
        /\ UserOp(now)
        /\ Finish(t, pruneUnlinked(folderData[t]))
        /\ CloseMenus(t)

ArchiveUnlinked(t) ==
    \E time \in Times :
        /\ Len(findUnlinked(folderData[t])) > 0
        /\ UserOp(time)
        /\ Finish(t, archiveUnlinked(folderData[t], time))
        /\ CloseMenus(t)

\* The note button of a folder card stops the click.
EditFolderAnnotation(t) ==
    \E id \in FolderIds(folderData[t]), newNote \in FolderNotes :
        /\ UserOp(now)
        /\ Finish(t, editFolderAnnotation(folderData[t], id, newNote))
        /\ UNCHANGED <<moveMenu, moveFolderMenu>>

\* A click elsewhere on the page.
ClickAway(t) ==
    /\ moveMenu[t].open \/ moveFolderMenu[t].open
    /\ CloseMenus(t)
    /\ UNCHANGED <<folderData, maktaba_folders, inbox, maktabaStats,
                   now, ops, asides, local>>

\* What the user and the environment of tab t can do, within a budget of
\* maxOps mutating operations and maxAsides focus events and menus; a menu is
\* opened only while an operation is left to use it.
Run(t, maxOps, maxAsides) ==
    \/ Receive(t)
    \/ ClickAway(t)
    \/ asides < maxAsides /\ Focus(t)
    \/ asides < maxAsides /\ ops < maxOps /\ ShowMoveMenu(t)
    \/ asides < maxAsides /\ ops < maxOps /\ ShowMoveFolderMenu(t)
    \/ ops < maxOps /\ CreateNewFolder(t)
    \/ ops < maxOps /\ SaveChatToFolder(t)
    \/ ops < maxOps /\ DeleteFolder(t)
    \/ ops < maxOps /\ Unlink(t)
    \/ ops < maxOps /\ GlobalDelete(t)
    \/ ops < maxOps /\ ClickMoveMenu(t)
    \/ ops < maxOps /\ ClickMoveFolderMenu(t)
    \/ ops < maxOps /\ PruneUnlinked(t)
    \/ ops < maxOps /\ ArchiveUnlinked(t)
    \/ ops < maxOps /\ EditFolderAnnotation(t)

Next == (\E t \in Tabs : Run(t, MaxOps, MaxAsides)) /\ UNCHANGED others

Spec == Init /\ [][Next]_vars

\* The callbacks of chrome.storage.sync.get and the onChanged events are
\* delivered: a tab with an answer waiting handles it.
FairSpec == Spec /\ \A t \in Tabs : WF_vars(Receive(t) /\ UNCHANGED others)

\* Runs of folder moves alone, with room for a menu in each tab.
MoveRun(t) ==
    \/ Receive(t)
    \/ ClickAway(t)
    \/ asides < MaxMoveMenus /\ ops < MaxOps /\ ShowMoveFolderMenu(t)
    \/ ops < MaxOps /\ ClickMoveFolderMenu(t)

MoveNext == (\E t \in Tabs : MoveRun(t)) /\ UNCHANGED others

SpecMove == Init /\ [][MoveNext]_vars

\* ------------------------------------------------------------- search
\* The text that the search reads is kept as text: a string is the sequence
\* of its characters.
MaxQueryLen == 5

\* String.prototype.toLowerCase on the letters in use
LowerChar(c) ==
    CASE c = "A" -> "a"
      [] c = "O" -> "o"
      [] c = "P" -> "p"
      [] c = "S" -> "s"
      [] c = "W" -> "w"
      [] OTHER -> c

toLowerCase(s) == [k \in 1..Len(s) |-> LowerChar(s[k])]

\* String.prototype.includes
includes(s, sub) ==
    \E k \in 0..(Len(s) - Len(sub)) : SubSeq(s, k + 1, k + Len(sub)) = sub

\* String.prototype.startsWith
startsWith(s, prefix) ==
    Len(s) >= Len(prefix) /\ SubSeq(s, 1, Len(prefix)) = prefix

\* \s of the regular expression: the space is the only white space in use
IsSpace(c) == c = " "

\* [^\s]+ from position i: the position after the run of non-space characters
RECURSIVE WordEnd(_, _)
WordEnd(s, i) ==
    IF i > Len(s) \/ IsSpace(s[i]) THEN i ELSE WordEnd(s, i + 1)

\* [^"]+ from position i: the position of the next quote, 0 if there is none
RECURSIVE QuoteAt(_, _)
QuoteAt(s, i) ==
    IF i > Len(s) THEN 0
    ELSE IF s[i] = "\"" THEN i ELSE QuoteAt(s, i + 1)

\* (?:"([^"]+)"|([^\s]+)) tried at position q: the quoted alternative first,
\* then the word; end = 0 when neither matches.
Alternatives(s, q) ==
    LET close == IF q <= Len(s) /\ s[q] = "\"" THEN QuoteAt(s, q + 1) ELSE 0
    IN  IF close > q + 1
        THEN [quoted |-> TRUE, raw |-> SubSeq(s, q + 1, close - 1), end |-> close + 1]
        ELSE IF WordEnd(s, q) > q
             THEN [quoted |-> FALSE, raw |-> SubSeq(s, q, WordEnd(s, q) - 1),
                   end |-> WordEnd(s, q)]
             ELSE [quoted |-> FALSE, raw |-> <<>>, end |-> 0]

\* One regex.exec at position p: (-?) takes the minus when the rest then
\* matches, and gives it back otherwise.
Exec(s, p) ==
    LET minus == IF p <= Len(s) /\ s[p] = "-" THEN Alternatives(s, p + 1)
                 ELSE [quoted |-> FALSE, raw |-> <<>>, end |-> 0]
        plain == Alternatives(s, p)
    IN  IF minus.end > 0
        THEN [isNegative |-> TRUE, quoted |-> minus.quoted, raw |-> minus.raw,
              end |-> minus.end]
        ELSE [isNegative |-> FALSE, quoted |-> plain.quoted, raw |-> plain.raw,
              end |-> plain.end]

\* A tokenizer that looks for the tag marker before it looks at the quotes.
TokenOfMarkerFirst(match) ==
    LET val == toLowerCase(match.raw)
    IN  IF startsWith(val, <<"#">>)
        THEN [type |-> IF match.isNegative THEN "not_tag" ELSE "tag",
              val |-> SubSeq(val, 2, Len(val))]
        ELSE [type |-> IF match.isNegative THEN "not_text" ELSE "text", val |-> val]

\* The token pushed for one match
TokenOf(match) ==
    LET val == toLowerCase(match.raw)
    IN  IF match.quoted
        THEN [type |-> IF match.isNegative THEN "not_text" ELSE "text", val |-> val]
        ELSE IF startsWith(val, <<"#">>)
             THEN [type |-> IF match.isNegative THEN "not_tag" ELSE "tag",
                   val |-> SubSeq(val, 2, Len(val))]
             ELSE [type |-> IF match.isNegative THEN "not_text" ELSE "text",
                   val |-> val]

\* while ((match = regex.exec(query)) !== null) from lastIndex p - 1
RECURSIVE Scan(_, _)
Scan(s, p) ==
    IF p > Len(s) THEN <<>>
    ELSE LET match == Exec(s, p)
         IN  IF match.end = 0 THEN Scan(s, p + 1)
             ELSE <<TokenOf(match)>> \o Scan(s, match.end)

\* The tokens renderSearchResults parses from the query
Tokenize(s) == Scan(s, 1)

\* A search where one token that holds is enough.
isMatchSome(chat, toks) ==
    \E k \in 1..Len(toks) :
        LET token == toks[k]
            title == toLowerCase(chat.title)
            note == toLowerCase(chat.annotation)
            tags == [i \in 1..Len(chat.tags) |-> toLowerCase(chat.tags[i])]
        IN  CASE token.type = "tag" ->
                    \E i \in 1..Len(tags) : includes(tags[i], token.val)
              [] token.type = "not_tag" ->
                    ~\E i \in 1..Len(tags) : includes(tags[i], token.val)
              [] token.type = "not_text" ->
                    ~includes(title, token.val) /\ ~includes(note, token.val)
              [] OTHER -> includes(title, token.val) \/ includes(note, token.val)

\* isMatch(chat, tokens)
isMatch(chat, toks) ==
    \A k \in 1..Len(toks) :
        LET token == toks[k]
            title == toLowerCase(chat.title)
            note == toLowerCase(chat.annotation)
            tags == [i \in 1..Len(chat.tags) |-> toLowerCase(chat.tags[i])]
        IN  CASE token.type = "tag" ->
                    \E i \in 1..Len(tags) : includes(tags[i], token.val)
              [] token.type = "not_tag" ->
                    ~\E i \in 1..Len(tags) : includes(tags[i], token.val)
              [] token.type = "not_text" ->
                    ~includes(title, token.val) /\ ~includes(note, token.val)
              [] OTHER -> includes(title, token.val) \/ includes(note, token.val)

\* The strings over an alphabet of at most n characters
RECURSIVE Strings(_, _)
Strings(alphabet, n) ==
    IF n = 0 THEN {<<>>}
    ELSE LET shorter == Strings(alphabet, n - 1)
         IN  shorter \cup {Append(s, c) : s \in shorter, c \in alphabet}

SearchAlphabet == {"a", "A", "#", "-", "\"", " "}

\* #work -"old project"
ExampleQuery ==
    <<"#", "w", "o", "r", "k", " ", "-", "\"", "o", "l", "d", " ",
      "p", "r", "o", "j", "e", "c", "t", "\"">>

\* What the user can have typed into the search box.
Queries == Strings(SearchAlphabet, MaxQueryLen) \cup {ExampleQuery}

\* The chats of the library that is searched, with their text, in the order
\* of Object.keys(folderData.allChats).
SearchChat(id, title, tags, annotation) ==
    [id |-> id, title |-> title, tags |-> tags, annotation |-> annotation]

SearchLibrary ==
    << SearchChat("k1", <<"P", "l", "a", "n">>, << <<"#", "w", "o", "r", "k">> >>, <<>>),
       SearchChat("k2", <<"O", "l", "d", " ", "P", "r", "o", "j", "e", "c", "t">>,
                  << <<"#", "w", "o", "r", "k">> >>, <<>>),
       SearchChat("k3", <<"P", "l", "a", "n">>, << <<"#", "h", "o", "m", "e">> >>, <<>>),
       SearchChat("k4", <<"a", " ", "a">>, << <<"#", "W", "o", "r", "k">>, <<"#", "A">> >>,
                  <<"A", "#">>),
       SearchChat("k5", <<"-", "a">>, <<>>, <<"a", " ", "o", "l", "d", " ", "p", "r", "o",
                  "j", "e", "c", "t">>),
       SearchChat("k6", <<"\"", "A", "\"">>, << <<"#", "a", "-", "a">> >>, <<"#">>) >>

RECURSIVE MatchedOf(_, _)
MatchedOf(chats, toks) ==
    IF chats = <<>> THEN <<>>
    ELSE IF isMatch(Head(chats), toks)
         THEN <<Head(chats).id>> \o MatchedOf(Tail(chats), toks)
         ELSE MatchedOf(Tail(chats), toks)

\* renderSearchResults(query, container): the query is parsed and the chats
\* that match are listed.
renderSearchResults ==
    /\ tokens' = Tokenize(query)
    /\ matchedChats' = MatchedOf(SearchLibrary, tokens')
    /\ UNCHANGED query

\* The variables of the library and its tabs.
library == <<folderData, maktaba_folders, inbox, maktabaStats, moveMenu,
             moveFolderMenu, now, ops, asides, local>>

InitSearch ==
    /\ init
    /\ NoTags
    /\ NoBackup
    /\ query \in Queries
    /\ tokens = <<>>
    /\ matchedChats = <<>>

NextSearch ==
    renderSearchResults /\ UNCHANGED <<library, tagString, chatTags, backup, port, sortMenu>>

\* The user has typed a query and the results are rendered.
SpecSearch == InitSearch /\ [][NextSearch]_vars

\* --------------------------------------------------------------- tags
MaxTagLen == 4

\* String.prototype.trim
RECURSIVE trimStart(_)
trimStart(s) == IF s # <<>> /\ IsSpace(Head(s)) THEN trimStart(Tail(s)) ELSE s

RECURSIVE trimEnd(_)
trimEnd(s) ==
    IF s # <<>> /\ IsSpace(s[Len(s)]) THEN trimEnd(SubSeq(s, 1, Len(s) - 1)) ELSE s

trim(s) == trimEnd(trimStart(s))

\* replace(/^#+/, '')
RECURSIVE stripMarker(_)
stripMarker(s) == IF s # <<>> /\ Head(s) = "#" THEN stripMarker(Tail(s)) ELSE s

\* split(','): the pieces between the commas, at least one
RECURSIVE split(_, _)
split(s, piece) ==
    IF s = <<>> THEN <<piece>>
    ELSE IF Head(s) = "," THEN <<piece>> \o split(Tail(s), <<>>)
         ELSE split(Tail(s), Append(piece, Head(s)))

\* array.map(f).filter(t => t) for strings: the empty ones are left out
RECURSIVE filterNonEmpty(_)
filterNonEmpty(list) ==
    IF list = <<>> THEN <<>>
    ELSE IF Head(list) = <<>> THEN filterNonEmpty(Tail(list))
         ELSE <<Head(list)>> \o filterNonEmpty(Tail(list))

\* sanitizedTags of saveChatToFolder, on text: `#${t.trim().replace(/^#+/, '')}`
sanitizedTagText(tags) ==
    [k \in 1..Len(tags) |-> <<"#">> \o stripMarker(trim(tags[k]))]

\* t => { clean = t.trim().replace(/^#+/, ''); return clean.length > 0 ?
\* `#${clean}` : null } followed by filter(t => t)
cleanTags(pieces) ==
    LET clean == filterNonEmpty([k \in 1..Len(pieces) |-> stripMarker(trim(pieces[k]))])
    IN  [k \in 1..Len(clean) |-> <<"#">> \o clean[k]]

\* The tag texts a user can type.
TagAlphabet == {"a", "#", " ", ","}
TagStrings == Strings(TagAlphabet, MaxTagLen)

\* Quick-save item click: the tag input is split and cleaned, and
\* saveChatToFolder sanitizes the result.
QuickSaveTags ==
    /\ chatTags' = sanitizedTagText(IF tagString # <<>>
                                    THEN cleanTags(split(tagString, <<>>)) ELSE <<>>)
    /\ UNCHANGED tagString

\* saveCurrentChatToFolder: the prompt's answer is split, trimmed and
\* filtered, and saveChatToFolder sanitizes the result.
SaveCurrentChatTags ==
    /\ chatTags' = sanitizedTagText(
            IF tagString # <<>>
            THEN filterNonEmpty([k \in 1..Len(split(tagString, <<>>)) |->
                                    trim(split(tagString, <<>>)[k])])
            ELSE <<>>)
    /\ UNCHANGED tagString

\* addChatByUrl: the prompt's answer is split and trimmed, and
\* saveChatToFolder sanitizes the result.
AddChatByUrlTags ==
    /\ chatTags' = sanitizedTagText(
            IF tagString # <<>>
            THEN [k \in 1..Len(split(tagString, <<>>)) |->
                     trim(split(tagString, <<>>)[k])]
            ELSE <<>>)
    /\ UNCHANGED tagString

\* editChatTags: the prompt's answer is split and cleaned.
EditChatTags ==
    /\ chatTags' = cleanTags(split(tagString, <<>>))
    /\ UNCHANGED tagString

InitTags ==
    /\ init
    /\ NoSearch
    /\ NoBackup
    /\ tagString \in TagStrings
    /\ chatTags = <<>>

NextTags ==
    /\ \/ QuickSaveTags
       \/ SaveCurrentChatTags
       \/ AddChatByUrlTags
       \/ EditChatTags
    /\ UNCHANGED <<library, query, tokens, matchedChats, backup, port, sortMenu>>

\* The user has typed tags and one of the four paths stores them.
SpecTags == InitTags /\ [][NextTags]_vars

\* ------------------------------------------------------- pinned searches
MaxPinOps == 3

\* A pinned search; title and query are kept by their length in bytes, and
\* the queries in use differ in length.
Pin(id, title, q) == [id |-> id, title |-> title, query |-> q]

\* A library of an earlier session with four pinned searches.
PinsLib ==
    [EmptyLib EXCEPT !.pinnedSearches =
        <<Pin(0, 1, 1), Pin(1, 1, 2), Pin(2, 1, 3), Pin(3, 1, 4)>>]

\* The queries whose results the user pins.
PinQueries == {4, 5, 6}
PinTitles == {1}

RECURSIVE FilterPins(_, _)
FilterPins(pins, id) ==
    IF pins = <<>> THEN <<>>
    ELSE IF Head(pins).id # id THEN <<Head(pins)>> \o FilterPins(Tail(pins), id)
         ELSE FilterPins(Tail(pins), id)

\* A pin button that lets a sixth entry in.
pinCurrentSearchSix(lib, q, title, time) ==
    IF \E k \in 1..Len(lib.pinnedSearches) : lib.pinnedSearches[k].query = q
    THEN Result(lib, FALSE)
    ELSE IF Len(lib.pinnedSearches) > 5 THEN Result(lib, FALSE)
    ELSE Result([lib EXCEPT !.pinnedSearches = Append(@, Pin(time, title, q))], TRUE)

\* pinBtn.onclick of the search results for query q, the prompt answered
\* with a non-empty title
pinCurrentSearch(lib, q, title, time) ==
    IF \E k \in 1..Len(lib.pinnedSearches) : lib.pinnedSearches[k].query = q
    THEN Result(lib, FALSE)
    ELSE IF Len(lib.pinnedSearches) >= 5 THEN Result(lib, FALSE)
    ELSE Result([lib EXCEPT !.pinnedSearches = Append(@, Pin(time, title, q))], TRUE)

\* delBtn.onclick of a pinned search, confirmed
quickUnpin(lib, id) ==
    Result([lib EXCEPT !.pinnedSearches = FilterPins(@, id)], TRUE)

\* The pin button: after saveAndRefresh() the search box is emptied and the
\* list is refreshed once more.
PinCurrentSearch(t) ==
    \E q \in PinQueries, title \in PinTitles, time \in Times :
        LET res == pinCurrentSearch(folderData[t], q, title, time)
        IN  /\ UserOp(time)
            /\ IF res.saved THEN saveAndRefreshThen(t, res.lib, 1)
               ELSE Finish(t, res)
            /\ CloseMenus(t)

\* The unpin button of a pinned search stops the click.
QuickUnpin(t) ==
    \E k \in 1..Len(folderData[t].pinnedSearches) :
        /\ UserOp(now)
        /\ Finish(t, quickUnpin(folderData[t], folderData[t].pinnedSearches[k].id))
        /\ UNCHANGED <<moveMenu, moveFolderMenu>>

InitPins == initWith({Absent, Present(PinsLib)}) /\ NoSearch /\ NoTags /\ NoBackup

PinRun(t) ==
    \/ Receive(t)
    \/ ops < MaxPinOps /\ PinCurrentSearch(t)
    \/ ops < MaxPinOps /\ QuickUnpin(t)

NextPins == (\E t \in Tabs : PinRun(t)) /\ UNCHANGED others

\* Runs of pinning and unpinning in two tabs.
SpecPins == InitPins /\ [][NextPins]_vars

\* ---------------------------------------------------- folders from nothing
MaxFolderOps == 4

InitFolders == initWith({Absent}) /\ NoSearch /\ NoTags /\ NoBackup

FolderRun(t) ==
    \/ Receive(t)
    \/ ClickAway(t)
    \/ asides < MaxAsides /\ ops < MaxFolderOps /\ ShowMoveFolderMenu(t)
    \/ ops < MaxFolderOps /\ CreateNewFolder(t)
    \/ ops < MaxFolderOps /\ SaveChatToFolder(t)
    \/ ops < MaxFolderOps /\ DeleteFolder(t)
    \/ ops < MaxFolderOps /\ ClickMoveFolderMenu(t)
    \/ ops < MaxFolderOps /\ ArchiveUnlinked(t)

NextFolders == (\E t \in Tabs : FolderRun(t)) /\ UNCHANGED others

\* Runs that start with empty storage and create, move, delete and archive.
SpecFolders == InitFolders /\ [][NextFolders]_vars

\* -------------------------------------------------------- backup files
MaxBackupOps == 2

\* What JSON.stringify(folderData) gives for tab t.
Serialized(t) ==
    IF notLibrary[t] = Undefined THEN stringify(folderData[t]) ELSE notLibrary[t]

\* exportDataAsJSON(): the text goes through encodeURIComponent into a data:
\* URI which the browser decodes into the downloaded file.
exportDataAsJSON(t) == File("json", Serialized(t))

\* refreshFolderList() with the search box empty throws on folderData when
\* pinnedSearches is a non-empty text or folders is no array (no forEach).
refreshThrows(v) ==
    \/ Get(v, "pinnedSearches").type = "string" /\ Truthy(Get(v, "pinnedSearches"))
    \/ Get(v, "folders").type # "array"

\* reader.onload of importDataFromJSON: how the handler ends.
\*   "parse_error"  JSON.parse or the member access threw, nothing assigned
\*   "invalid"      the members were falsy: alert, nothing assigned
\*   "declined"     the confirm dialog was answered no
\*   "threw"        folderData = importedData, then refreshFolderList() threw
\*                  inside saveAndRefresh(), before its try block
\*   "restored"     folderData = importedData and saveAndRefresh() returned
importDataFromJSON(file, confirmed) ==
    IF file.syntax # "json" \/ file.value.type \in {"null", "undefined"}
    THEN "parse_error"
    ELSE IF ~(Truthy(Get(file.value, "folders")) /\ Truthy(Get(file.value, "allChats")))
    THEN "invalid"
    ELSE IF ~confirmed THEN "declined"
    ELSE IF refreshThrows(file.value) THEN "threw"
    ELSE "restored"

\* Documents that are no backup of a library.  Documents whose allChats
\* member is truthy and no dictionary are not among the inputs.
EmptyDict == Member("allChats", JObj(<<>>))
BackupFiles ==
    { File("bad", Undefined),
      File("json", JNull),
      File("json", JNum(1)),
      File("json", JObj(<<>>)),
      File("json", JObj(<<Member("folders", JArr(<<>>))>>)),
      File("json", JObj(<<EmptyDict>>)),
      File("json", JObj(<<Member("folders", JNull), EmptyDict>>)),
      File("json", JObj(<<Member("folders", JObj(<<>>)), EmptyDict>>)),
      File("json", JObj(<<Member("folders", JText(3)), EmptyDict>>)),
      File("json", stringify(SmallLib)),
      File("json", stringify(PinsLib)) }

\* The files the user can choose: the fixed ones and what a tab has exported.
Files == BackupFiles \cup ({download[s] : s \in Tabs} \ {NoFile})

ExportData(t) ==
    /\ download[t] # exportDataAsJSON(t)
    /\ download' = [download EXCEPT ![t] = exportDataAsJSON(t)]
    /\ UNCHANGED <<library, upload, notLibrary>>

\* reader.onload of importDataFromJSON in tab t, for a file among files.
ImportFrom(t, files) ==
    \E file \in files, confirmed \in BOOLEAN :
        LET end == importDataFromJSON(file, confirmed)
        IN  /\ UserOp(now)
            /\ upload' = [tab |-> t, file |-> file, confirmed |-> confirmed,
                          at |-> ops + 1]
            /\ IF end = "restored"
               THEN /\ saveAndRefresh(t, AsFolderData(file.value))
                    /\ notLibrary' = [notLibrary EXCEPT ![t] = Undefined]
               ELSE IF end = "threw"
               THEN /\ folderData' = [folderData EXCEPT ![t] = Library(file.value)]
                    /\ notLibrary' = [notLibrary EXCEPT ![t] = file.value]
                    /\ local' = [local EXCEPT ![t] = "unsaved"]
                    /\ UNCHANGED <<maktabaStats, maktaba_folders, inbox>>
               ELSE UNCHANGED <<folderData, notLibrary, local, maktabaStats,
                                maktaba_folders, inbox>>
            /\ UNCHANGED <<moveMenu, moveFolderMenu, download>>

ImportData(t) == ImportFrom(t, Files)

\* A storage answer in a tab whose folderData is no library: its text differs
\* from the text of every stored library, so the listener takes the new value.
ReceiveBackup(t) ==
    IF notLibrary[t] = Undefined
    THEN Receive(t) /\ UNCHANGED backup
    ELSE /\ runtimeId[t]
         /\ inbox[t] # <<>>
         /\ inbox' = [inbox EXCEPT ![t] = Tail(@)]
         /\ IF Head(inbox[t]).type = "get"
            THEN loadDataCallback(t, Head(inbox[t]))
            ELSE onChangedAlways(t, Head(inbox[t]))
         /\ notLibrary' = [notLibrary EXCEPT ![t] = Undefined]
         /\ UNCHANGED <<maktaba_folders, moveMenu, moveFolderMenu, now, ops,
                        asides, download, upload>>

InitBackup ==
    /\ initWith({Absent, Present(SmallLib), Present(NearFullLib)})
    /\ NoSearch /\ NoTags /\ NoBackup

BackupRun(t) ==
    \/ ReceiveBackup(t)
    \/ ExportData(t)
    \/ ops < MaxBackupOps /\ ImportData(t)

NextBackup ==
    (\E t \in Tabs : BackupRun(t)) /\ UNCHANGED <<query, tokens, matchedChats,
                                                    tagString, chatTags, port,
                                                    sortMenu>>

\* Runs of exports and imports in two tabs.
SpecBackup == InitBackup /\ [][NextBackup]_vars

\* ---------------------------------------------- invalidated context
\* The extension is reloaded or updated: the content script of tab t stays
\* on the page, its DOM listeners and open menus too; chrome.runtime.id is gone.
Invalidate(t) ==
    /\ runtimeId[t]
    /\ runtimeId' = [runtimeId EXCEPT ![t] = FALSE]
    /\ UNCHANGED <<library, uncaught>>

\* The click of ClickMoveFolderMenu in an invalidated context in which
\* chrome.i18n.getMessage throws: handleMoveFolder has moved the folder when
\* refreshFolderList(), called by saveAndRefresh() before its try block,
\* throws while it renders.  The document listener still closes the menus.
\* (Where getMessage still answers, the handler ends as ClickMoveFolderMenu.)
ClickMoveFolderMenuThrows(t) ==
    \E targetParentId \in moveFolderMenu[t].targets \cup
            (IF moveFolderMenu[t].makeRoot THEN {NoFolder} ELSE {}) :
        /\ ~runtimeId[t]
        /\ moveFolderMenu[t].open
        /\ UserOp(now)
        /\ folderData' = [folderData EXCEPT ![t] =
               handleMoveFolder(@, moveFolderMenu[t].folderId, targetParentId).lib]
        /\ local' = [local EXCEPT ![t] = "unsaved"]
        /\ uncaught' = [uncaught EXCEPT ![t] = TRUE]
        /\ CloseMenus(t)
        /\ UNCHANGED <<maktabaStats, maktaba_folders, inbox, runtimeId>>

TeardownRun(t) ==
    \/ Invalidate(t)
    \/ Receive(t) /\ UNCHANGED port
    \/ ClickAway(t) /\ UNCHANGED port
    \/ asides < MaxAsides /\ Focus(t) /\ UNCHANGED port
    \/ asides < MaxAsides /\ runtimeId[t] /\ ShowMoveFolderMenu(t) /\ UNCHANGED port
    \/ ops < MaxOps /\ runtimeId[t] /\ CreateNewFolder(t) /\ UNCHANGED port
    \/ ops < MaxOps /\ ClickMoveFolderMenu(t) /\ UNCHANGED port
    \/ ops < MaxOps /\ ClickMoveFolderMenuThrows(t)

NextTeardown ==
    (\E t \in Tabs : TeardownRun(t))
        /\ UNCHANGED <<query, tokens, matchedChats, tagString, chatTags, backup,
                       sortMenu>>

\* Runs in which the context of a tab can be invalidated at any moment.
SpecTeardown == Init /\ [][NextTeardown]_vars

\* ------------------------------------------------------- chat records
MaxChatOps == 3

\* A rename that stamps the record anew.
renameChatRestamp(lib, chatId, newName, time) ==
    IF chatId \notin KeySet(lib.allChats) \/ newName = 0 THEN Result(lib, FALSE)
    ELSE Result([lib EXCEPT !.allChats = PutChat(@, chatId,
                    [ChatAt(lib.allChats, chatId) EXCEPT
                        !.title = newName, !.timestamp = time, !.updatedAt = time])],
                TRUE)

\* renameChat(chatId, folderId); newName is the trimmed answer (bytes), 0 for
\* an empty answer or a cancelled prompt.
renameChat(lib, chatId, newName, time) ==
    IF chatId \notin KeySet(lib.allChats) \/ newName = 0 THEN Result(lib, FALSE)
    ELSE Result([lib EXCEPT !.allChats = PutChat(@, chatId,
                    [ChatAt(lib.allChats, chatId) EXCEPT
                        !.title = newName, !.updatedAt = time])],
                TRUE)

\* editChatAnnotation(chatId, folderId) with the prompt answered.
editChatAnnotation(lib, chatId, newNote, time) ==
    IF chatId \notin KeySet(lib.allChats) THEN Result(lib, FALSE)
    ELSE Result([lib EXCEPT !.allChats = PutChat(@, chatId,
                    [ChatAt(lib.allChats, chatId) EXCEPT
                        !.annotation = newNote, !.updatedAt = time])],
                TRUE)

\* The pieces of the answer that keep a body get the marker; the others go.
RECURSIVE cleanTagBytes(_)
cleanTagBytes(bodies) ==
    IF bodies = <<>> THEN <<>>
    ELSE IF Head(bodies) > 0
         THEN <<1 + Head(bodies)>> \o cleanTagBytes(Tail(bodies))
         ELSE cleanTagBytes(Tail(bodies))

\* editChatTags(chatId, folderId) with the prompt answered; bodies are the
\* bytes of the trimmed pieces without their markers.
editChatTags(lib, chatId, bodies, time) ==
    IF chatId \notin KeySet(lib.allChats) THEN Result(lib, FALSE)
    ELSE Result([lib EXCEPT !.allChats = PutChat(@, chatId,
                    [ChatAt(lib.allChats, chatId) EXCEPT
                        !.tags = cleanTagBytes(bodies), !.updatedAt = time])],
                TRUE)

NewTitles == {0, 6}          \* answers to the rename prompt (bytes)
NewNotes == {2}              \* answers to the note prompt (bytes)
NewTagBodies == {<<2, 0>>}   \* answers to the tag prompt (bytes of the bodies)

\* The buttons of a chat in the folder view.
RenameChat(t) ==
    \E chatId \in KeySet(folderData[t].allChats), newName \in NewTitles,
       time \in Times :
        /\ UserOp(time)
        /\ Finish(t, renameChat(folderData[t], chatId, newName, time))
        /\ CloseMenus(t)

EditChatAnnotation(t) ==
    \E chatId \in KeySet(folderData[t].allChats), newNote \in NewNotes,
       time \in Times :
        /\ UserOp(time)
        /\ Finish(t, editChatAnnotation(folderData[t], chatId, newNote, time))
        /\ CloseMenus(t)

EditTagsOfChat(t) ==
    \E chatId \in KeySet(folderData[t].allChats), bodies \in NewTagBodies,
       time \in Times :
        /\ UserOp(time)
        /\ Finish(t, editChatTags(folderData[t], chatId, bodies, time))
        /\ CloseMenus(t)

\* The stored library of an earlier session after its unlinked chat c2 was
\* pruned: folders 1 > 2 [c1] and 3 [c1], chat c1.
OneChatLib == pruneUnlinked(SmallLib).lib

InitChat ==
    /\ initWith({Present(OneChatLib)})
    /\ NoSearch /\ NoTags /\ NoBackup

ChatRun(t) ==
    \/ Receive(t)
    \/ ops < MaxChatOps /\ SaveChatToFolder(t)
    \/ ops < MaxChatOps /\ RenameChat(t)
    \/ ops < MaxChatOps /\ EditChatAnnotation(t)
    \/ ops < MaxChatOps /\ EditTagsOfChat(t)
    \/ ops < MaxChatOps /\ GlobalDelete(t)

NextChat == (\E t \in Tabs : ChatRun(t)) /\ UNCHANGED others

\* Runs of saves, edits and deletions of chat records in two tabs.
SpecChat == InitChat /\ [][NextChat]_vars

\* ------------------------------------------------------ location badges
MaxBadgeOps == 2

\* A mutating operation within the budget of the runs with searches.
BadgeOp == ops < MaxBadgeOps

\* The scenario's library: root folder 1 "Research" [c1] with the subfolder
\* 2 "Drafts", and the chat c1 "Pricing Study" tagged #strategy.
ResearchLib ==
    [folders |->
        << Folder(1, 8, <<"c1">>, << Folder(2, 6, <<>>, <<>>, 0) >>, 0) >>,
     allChats |-> << ChatEntry("c1", 13, <<9>>, 0, 1, 1) >>,
     pinnedSearches |-> <<>>]

\* The characters of the chats, which the libraries keep as byte counts.
ChatText(id) ==
    IF id = "c1"
    THEN SearchChat("c1", <<"P", "r", "i", "c", "i", "n", "g", " ", "S", "t", "u",
                           "d", "y">>,
                    << <<"#", "s", "t", "r", "a", "t", "e", "g", "y">> >>, <<>>)
    ELSE SearchChat(id, <<"P", "l", "a", "n">>, << <<"#", "h", "o", "m", "e">> >>,
                    <<>>)

\* #strategy
StrategyQuery == <<"#", "s", "t", "r", "a", "t", "e", "g", "y">>

\* What the user types into the search box of a tab with folders.
BadgeQueries ==
    {StrategyQuery, <<"-", "#", "h", "o", "m", "e">>, <<"#", "x">>}

\* The loop over Object.keys(folderData.allChats): each chat that matches
\* with the folders findAllFoldersForChat returns for it.
RECURSIVE MatchesOf(_, _, _)
MatchesOf(keys, lib, toks) ==
    IF keys = <<>> THEN <<>>
    ELSE IF isMatch(ChatText(Head(keys)), toks)
         THEN << [chat |-> Head(keys),
                  folders |-> findAllFoldersForChat(lib, Head(keys))] >>
              \o MatchesOf(Tail(keys), lib, toks)
         ELSE MatchesOf(Tail(keys), lib, toks)

\* renderSearchResults(query, container) in tab t: the query typed is parsed
\* and the chats of the tab's library that match are listed, each with the
\* folders of its badges.
RenderSearchResults(t) ==
    \E typed \in BadgeQueries :
        /\ query' = typed
        /\ tokens' = Tokenize(typed)
        /\ matchedChats' = MatchesOf(ObjectKeys(folderData[t].allChats),
                                     folderData[t], tokens')
        /\ UNCHANGED <<library, tagString, chatTags, backup, port, sortMenu>>

InitBadges ==
    /\ initWith({Present(SmallLib), Present(ResearchLib)})
    /\ NoSearch /\ NoTags /\ NoBackup

BadgeRun(t) ==
    \/ Receive(t)
    \/ asides < MaxMoveMenus /\ BadgeOp /\ ShowMoveMenu(t)
    \/ asides < MaxMoveMenus /\ BadgeOp /\ ShowMoveFolderMenu(t)
    \/ BadgeOp /\ ClickMoveMenu(t)
    \/ BadgeOp /\ ClickMoveFolderMenu(t)
    \/ BadgeOp /\ Unlink(t)

NextBadges ==
    \/ (\E t \in Tabs : BadgeRun(t)) /\ UNCHANGED others
    \/ \E t \in Tabs : RenderSearchResults(t)

\* Chats and folders are moved and unlinked in two tabs, and searched.
SpecBadges == InitBadges /\ [][NextBadges]_vars

NextMoveChat == (\E t \in Tabs : BadgeRun(t)) /\ UNCHANGED others

\* Chats and folders are moved and unlinked in two tabs.
SpecMoveChat == InitBadges /\ [][NextMoveChat]_vars

\* ---------------------------------------------------------- diagnostics
\* In the runs with diagnostics the titles, notes and tags of the chats are
\* kept as their characters, so that the bytes JSON.stringify gives them are
\* computed and not given.
MaxTitleLen == 2

\* The characters of the titles and notes: a letter and the quotation mark.
TextAlphabet == {"a", "\""}

\* The UTF-8 bytes of a text of ASCII characters.
Utf8Bytes(s) == Len(s)

\* JSON.stringify writes the quotation mark and the backslash with an escape.
RECURSIVE JsonTextBytes(_)
JsonTextBytes(s) ==
    IF s = <<>> THEN 0
    ELSE (IF Head(s) \in {"\"", "\\"} THEN 2 ELSE 1) + JsonTextBytes(Tail(s))

\* The library with each text of a chat replaced by the bytes of its
\* content in JSON.stringify(folderData).
Measured(lib) ==
    [lib EXCEPT !.allChats =
        [k \in 1..Len(lib.allChats) |->
            [lib.allChats[k] EXCEPT
                !.title = JsonTextBytes(@),
                !.annotation = JsonTextBytes(@),
                !.tags = [i \in 1..Len(@) |-> JsonTextBytes(@[i])]]]]

\* getAllUniqueTags(): the standardized tags of all chats, each once
getAllUniqueTags(lib) ==
    UNION {{<<"#">> \o stripMarker(lib.allChats[k].tags[i]) :
               i \in 1..Len(lib.allChats[k].tags)} : k \in 1..Len(lib.allChats)}

\* ((bytes/102400)*100).toFixed(2), in hundredths of a percent
quota_pct(bytes) == (bytes * 10000 + 51200) \div 102400

\* A log that also carries the title of the first chat.
generateDiagnosticLogTitled(lib, stats, time) ==
    [meta |-> [timestamp |-> time],
     storage |-> [bytes_used |-> bytesInUse(Measured(lib)),
                  quota_pct |-> quota_pct(bytesInUse(Measured(lib)))],
     counts |-> [folders |-> Len(lib.folders),
                 chats |-> Len(ObjectKeys(lib.allChats)),
                 unlinked |-> Len(findUnlinked(lib)),
                 pinned |-> Len(lib.pinnedSearches),
                 tags |-> Cardinality(getAllUniqueTags(lib)),
                 first |-> lib.allChats[1].title],
     activity |-> [session_renders |-> stats.renders, session_skips |-> stats.skips],
     integrity |-> [is_clean |-> Len(findUnlinked(lib)) = 0]]

\* generateDiagnosticLog(): the log that is downloaded
generateDiagnosticLog(lib, stats, time) ==
    LET bytes == bytesInUse(Measured(lib))
        unlinkedCount == Len(findUnlinked(lib))
    IN  [meta |-> [timestamp |-> time],
         storage |-> [bytes_used |-> bytes, quota_pct |-> quota_pct(bytes)],
         counts |-> [folders |-> Len(lib.folders),
                     chats |-> Len(ObjectKeys(lib.allChats)),
                     unlinked |-> unlinkedCount,
                     pinned |-> Len(lib.pinnedSearches),
                     tags |-> Cardinality(getAllUniqueTags(lib))],
         activity |-> [session_renders |-> stats.renders,
                       session_skips |-> stats.skips],
         integrity |-> [is_clean |-> unlinkedCount = 0]]

\* The titles read from the page and the notes typed.
TitleTexts == Strings(TextAlphabet, MaxTitleLen) \ {<<>>}
NoteTexts == {<<>>, <<"a">>, <<"\"">>}

\* A library as SmallLib with the texts of c1 given; c2 is in no folder, or
\* has been pruned.
TextLib(title, note, pruned) ==
    [folders |-> SmallLib.folders,
     allChats |->
        << ChatEntry("c1", title, << <<"#", "a">> >>, note, 1, 1) >> \o
           (IF pruned THEN <<>>
            ELSE << ChatEntry("c2", <<"a">>, << <<"#", "a">>, <<"#", "#", "a">> >>,
                              <<>>, 2, 3) >>),
     pinnedSearches |-> <<>>]

TextLibs ==
    {TextLib(title, note, pruned) :
        title \in TitleTexts, note \in NoteTexts, pruned \in BOOLEAN}

GenerateDiagnosticLog(t) ==
    LET file == File("json", generateDiagnosticLog(folderData[t], maktabaStats[t], now))
    IN  /\ download[t] # file
        /\ download' = [download EXCEPT ![t] = file]
        /\ UNCHANGED <<library, upload, notLibrary>>

\* Both tabs have loaded the library; t2 has since saved an edit of c1, of
\* which t1 has not yet heard, and a tab may have reloaded on focus.
InitDiagnostic ==
    /\ \E old \in TextLibs, new \in TextLibs :
          /\ maktaba_folders = Present(new)
          /\ folderData = [t \in Tabs |-> IF t = "t2" THEN new ELSE old]
          /\ inbox = [t \in Tabs |-> IF t = "t1" /\ old # new
                                     THEN <<Changed(new, "t2")>> ELSE <<>>]
    /\ maktabaStats \in [Tabs -> {[renders |-> r, skips |-> 0] : r \in {1, 2}}]
    /\ moveMenu = [t \in Tabs |-> NoMoveMenu]
    /\ moveFolderMenu = [t \in Tabs |-> NoMoveFolderMenu]
    /\ now = 4
    /\ ops = 0
    /\ asides = 0
    /\ local = [t \in Tabs |-> "none"]
    /\ runtimeId = [t \in Tabs |-> TRUE]
    /\ uncaught = [t \in Tabs |-> FALSE]
    /\ sortMenu = [t \in Tabs |-> NoSortMenu]
    /\ NoSearch /\ NoTags /\ NoBackup

NextDiagnostic ==
    \/ (\E t \in Tabs : Receive(t)) /\ UNCHANGED others
    \/ (\E t \in Tabs : GenerateDiagnosticLog(t))
          /\ UNCHANGED <<query, tokens, matchedChats, tagString, chatTags, port,
                         sortMenu>>

\* The tabs download diagnostic logs of libraries with different texts.
SpecDiagnostic == InitDiagnostic /\ [][NextDiagnostic]_vars

\* ------------------------------------------------------------ sort menu
MaxSortOps == 2     \* sort orders chosen, over all tabs
MaxSortAsides == 3  \* focus events and sort menus opened, over all tabs

\* The options of the sort menu.
SortMethods == {"updated", "created", "alpha"}

\* folder.sortOrder, a property that a folder has once it has been sorted
SortOrderOf(lib, folderId) ==
    LET folder == FolderAt(lib.folders, getFolderContext(folderId, lib.folders))
    IN  IF "sortOrder" \in DOMAIN folder THEN folder.sortOrder ELSE "undefined"

\* folder.sortOrder = sortMethod on the folder with this id in the tree
setSortOrder(lib, folderId, sortMethod) ==
    LET context == getFolderContext(folderId, lib.folders)
        folder == FolderAt(lib.folders, context)
    IN  [lib EXCEPT !.folders = SetFolderAt(@, context,
            [x \in DOMAIN folder \cup {"sortOrder"} |->
                IF x = "sortOrder" THEN sortMethod ELSE folder[x]])]

\* item.onclick of the sort menu: context.folder.sortOrder = sortMethod, on
\* the folder object found when the menu was opened.  With folderData
\* replaced since then that object is no part of the tree.
sortItemClick(lib, menu, sortMethod) ==
    IF menu.detached \/ menu.folderId \notin FolderIds(lib) THEN lib
    ELSE setSortOrder(lib, menu.folderId, sortMethod)

\* The sort button of the folder view stops the click and opens the menu.
ShowSortMenu(t) ==
    \E folderId \in FolderIds(folderData[t]) :
        /\ asides' = asides + 1
        /\ sortMenu' = [sortMenu EXCEPT ![t] =
               [open |-> TRUE, folderId |-> folderId, detached |-> FALSE]]
        /\ UNCHANGED <<folderData, maktaba_folders, inbox, maktabaStats, moveMenu,
                       moveFolderMenu, now, ops, local>>

\* A click on an option of the sort menu; the click closes the menus.
ChooseSortAs(t, sortMethod) ==
    /\ sortMenu[t].open
    /\ UserOp(now)
    /\ saveAndRefresh(t, sortItemClick(folderData[t], sortMenu[t], sortMethod))
    /\ CloseMenus(t)
    /\ sortMenu' = [sortMenu EXCEPT ![t] = NoSortMenu]

ChooseSort(t) == \E sortMethod \in SortMethods : ChooseSortAs(t, sortMethod)

\* Tab t handles the next answer of chrome.storage.sync; when it assigns a
\* new object to folderData, the folder of an open sort menu is left behind.
ReceiveSort(t) ==
    /\ Receive(t)
    /\ sortMenu' = [sortMenu EXCEPT ![t].detached =
           @ \/ (sortMenu[t].open /\ (\/ Head(inbox[t]).type = "get"
                                      \/ folderData[t] # Head(inbox[t]).lib))]

FocusSort(t) == Focus(t) /\ UNCHANGED sortMenu

InitSort ==
    /\ initWith({Present(SmallLib)})
    /\ NoSearch /\ NoTags /\ NoBackup

SortRun(t) ==
    \/ ReceiveSort(t)
    \/ asides < MaxSortAsides /\ FocusSort(t)
    \/ asides < MaxSortAsides /\ ops < MaxSortOps /\ ShowSortMenu(t)
    \/ ops < MaxSortOps /\ ChooseSort(t)

NextSort ==
    (\E t \in Tabs : SortRun(t))
        /\ UNCHANGED <<query, tokens, matchedChats, tagString, chatTags, backup, port>>

\* Sort orders are chosen in two tabs, which reload and hear of each other.
SpecSort == InitSort /\ [][NextSort]_vars

\* ------------------------------------------------------ legacy backups
MaxLegacyOps == 2

\* A backup written before pins existed: the folders and allChats members.
LegacyBackup(lib) == JObj(SubSeq(stringify(lib).items, 1, 2))

\* The backup files at hand: of today's format and of the old one.
LegacyFiles ==
    { File("json", stringify(SmallLib)),
      File("json", LegacyBackup(SmallLib)),
      File("json", LegacyBackup(EmptyLib)) }

ImportLegacy(t) ==
    /\ ImportFrom(t, LegacyFiles)
    /\ UNCHANGED sortMenu

InitLegacy ==
    /\ initWith({Absent, Present(OneChatLib)})
    /\ NoSearch /\ NoTags /\ NoBackup

LegacyRun(t) ==
    \/ Receive(t) /\ UNCHANGED <<backup, sortMenu>>
    \/ asides < MaxAsides /\ Focus(t) /\ UNCHANGED <<backup, sortMenu>>
    \/ ops < MaxLegacyOps /\ ImportLegacy(t)

NextLegacy ==
    (\E t \in Tabs : LegacyRun(t))
        /\ UNCHANGED <<query, tokens, matchedChats, tagString, chatTags, port>>

\* Backups of both formats are restored in two tabs, which reload on focus.
SpecLegacy == InitLegacy /\ [][NextLegacy]_vars

\* ---------------------------------------------------- oversized backups
MaxRestoreOps == 2

\* The library of an earlier session one byte above the gatekeeper's limit.
OverQuotaLib ==
    StoredLib(QUOTA_LIMIT - SAFETY_BUFFER + 1 - bytesInUse(SmallLib))

\* The backup files at hand: a small library and one beyond the quota.
RestoreFiles ==
    { File("json", stringify(SmallLib)),
      File("json", stringify(OverQuotaLib)) }

ImportRestore(t) ==
    /\ ImportFrom(t, RestoreFiles)
    /\ UNCHANGED sortMenu

InitRestore ==
    /\ initWith({Absent, Present(OneChatLib)})
    /\ NoSearch /\ NoTags /\ NoBackup

RestoreRun(t) ==
    \/ Receive(t) /\ UNCHANGED <<backup, sortMenu>>
    \/ asides < MaxAsides /\ Focus(t) /\ UNCHANGED <<backup, sortMenu>>
    \/ ops < MaxRestoreOps /\ ImportRestore(t)

NextRestore ==
    (\E t \in Tabs : RestoreRun(t))
        /\ UNCHANGED <<query, tokens, matchedChats, tagString, chatTags, port>>

\* Backups within and beyond the quota are restored in two tabs.
SpecRestore == InitRestore /\ [][NextRestore]_vars

\* ------------------------------------------------------------- claims
\* Tab t has run a handler that ended in saveAndRefresh in this step.
SaveStep(t) ==
    /\ ops' = ops + 1
    /\ maktabaStats'[t].renders = maktabaStats[t].renders + 1

\* The library a reload would bring.
Persisted == IF maktaba_folders.has THEN maktaba_folders.lib ELSE EmptyLib

\* C1: the library stored under maktaba_folders never serializes to more
\* than 100352 bytes, and the entry changes only in a step in which a tab
\* ran saveAndRefresh on a library of at most 100352 bytes, which becomes
\* the entry.
C1_PersistedWithinLimit ==
    /\ [](maktaba_folders.has => bytesInUse(maktaba_folders.lib) <= 100352)
    /\ [][maktaba_folders' # maktaba_folders =>
             \E t \in Tabs : /\ SaveStep(t)
                             /\ bytesInUse(folderData'[t]) <= 100352
                             /\ maktaba_folders' = Present(folderData'[t])]_vars

\* A tab holds a library over the limit whose save was rejected, while the
\* entry has been rewritten by an accepted save.
C1_Witness ==
    /\ maktaba_folders.has
    /\ maktaba_folders.lib # NearFullLib
    /\ \E t \in Tabs : /\ local[t] = "rejected"
                        /\ bytesInUse(folderData[t]) > 100352

\* C6: a save of a library of exactly 100352 bytes is written to storage;
\* a save of a library of 100353 bytes leaves storage as it was and
\* announces nothing.
C6_QuotaBoundary ==
    [][\A t \in Tabs : SaveStep(t) =>
          /\ bytesInUse(folderData'[t]) = 100352 =>
                 maktaba_folders' = Present(folderData'[t])
          /\ bytesInUse(folderData'[t]) = 100353 =>
                 maktaba_folders' = maktaba_folders /\ inbox' = inbox]_vars

\* The entry holds a library of exactly 100352 bytes while a tab holds a
\* rejected one of 100353 bytes.
C6_Witness ==
    /\ maktaba_folders.has
    /\ bytesInUse(maktaba_folders.lib) = 100352
    /\ \E t \in Tabs : /\ local[t] = "rejected"
                        /\ bytesInUse(folderData[t]) = 100353

\* C7: a save the gatekeeper rejects leaves the entry as it was, and a tab
\* whose library holds a rejected mutation writes nothing to storage until
\* the library has been replaced by a reload.
C7_RejectedNeverCommitted ==
    [][\A t \in Tabs : SaveStep(t) =>
          /\ bytesInUse(folderData'[t]) > 100352 => maktaba_folders' = maktaba_folders
          /\ local[t] = "rejected" => maktaba_folders' = maktaba_folders]_vars

\* C2: every chat id in the chatIds of a folder, at any depth, is a key of
\* allChats, in the folderData of every tab and in the stored library.
C2_ReferentialIntegrity ==
    /\ \A t \in Tabs : referencedIds(folderData[t]) \subseteq KeySet(folderData[t].allChats)
    /\ referencedIds(Persisted) \subseteq KeySet(Persisted.allChats)

\* C3: every call handleMoveFolder(A, B) an open move-folder menu offers,
\* with B = A or B inside the subtree of A, leaves the folder tree as it was.
C3_MoveIntoSubtreeRejected ==
    \A t \in Tabs : moveFolderMenu[t].open =>
        \A B \in moveFolderMenu[t].targets :
            LET A == moveFolderMenu[t].folderId
                context == getFolderContext(A, folderData[t].folders)
            IN  (/\ context # <<>>
                 /\ \/ B = A
                    \/ isDescendant(FolderAt(folderData[t].folders, context), B))
                => handleMoveFolder(folderData[t], A, B).lib = folderData[t]

\* Tab t handles a change notification in this step.
Notified(t) ==
    /\ inbox[t] # <<>>
    /\ Head(inbox[t]).type = "changed"
    /\ inbox'[t] = Tail(inbox[t])

\* C4: a change notification whose snapshot differs from folderData replaces
\* folderData by the snapshot and refreshes the list once, so that the tab's
\* chat count and unlinked count are the snapshot's; a notification whose
\* snapshot is identical changes nothing and refreshes nothing.
C4_NotificationReplaces ==
    [][\A t \in Tabs : Notified(t) =>
          LET snapshot == Head(inbox[t]).lib
          IN  IF folderData[t] # snapshot
              THEN /\ folderData'[t] = snapshot
                   /\ maktabaStats'[t].renders = maktabaStats[t].renders + 1
                   /\ Len(folderData'[t].allChats) = Len(snapshot.allChats)
                   /\ Len(findUnlinked(folderData'[t])) = Len(findUnlinked(snapshot))
              ELSE /\ folderData'[t] = folderData[t]
                   /\ maktabaStats'[t].renders = maktabaStats[t].renders]_vars

\* Two tabs that started identical: one has created a folder and linked a new
\* chat into it, the other has handled both notifications (a load and two
\* refreshes) and the writer has skipped its own two; both show one chat and
\* no unlinked chat.
C4_Witness ==
    /\ ops = 2
    /\ \A t \in Tabs : inbox[t] = <<>>
    /\ maktaba_folders.has
    /\ \A t \in Tabs : folderData[t] = maktaba_folders.lib
    /\ Len(maktaba_folders.lib.allChats) = 1
    /\ findUnlinked(maktaba_folders.lib) = <<>>
    /\ \E A, B \in Tabs : /\ maktabaStats[A].renders = 3
                           /\ maktabaStats[B].renders = 3
                           /\ A # B

\* C8: an unlink of a chat shown in a folder takes chatId out of the chatIds
\* of that folder, keeping the other ids, leaves every other folder and every
\* other record as it was, and keeps the record of chatId exactly when a
\* folder still refers to it.
C8_UnlinkOneFolder ==
    \A t \in Tabs : \A folderId \in FolderIds(folderData[t]) :
      \A chatId \in ShownChats(folderData[t], folderId) :
        LET before == folderData[t]
            after == removeChatFromFolder(before, chatId, folderId).lib
            path == getFolderContext(folderId, before.folders)
        IN  /\ AllPaths(after) = AllPaths(before)
            /\ \A q \in PathSet(before) :
                   LET f == FolderAt(before.folders, q)
                       g == FolderAt(after.folders, q)
                   IN  /\ g.id = f.id
                       /\ IF q = path
                          THEN /\ ~Includes(g.chatIds, chatId)
                               /\ IdSet(g.chatIds) = IdSet(f.chatIds) \ {chatId}
                          ELSE g.chatIds = f.chatIds
            /\ chatId \in KeySet(after.allChats) <=> chatId \in referencedIds(after)
            /\ \A other \in KeySet(before.allChats) \ {chatId} :
                   /\ other \in KeySet(after.allChats)
                   /\ ChatAt(after.allChats, other) = ChatAt(before.allChats, other)

\* A tab has unlinked c1 from folder 3 and keeps its record for folder 2,
\* while the other tab has unlinked c1 from both and reclaimed the record.
C8_Witness ==
    \E t, u \in Tabs :
        /\ ops = 2
        /\ FolderIds(folderData[t]) = {1, 2, 3}
        /\ referencedIds(folderData[t]) = {"c1"}
        /\ Len(findAllFoldersForChat(folderData[t], "c1")) = 1
        /\ "c1" \in KeySet(folderData[t].allChats)
        /\ FolderIds(folderData[u]) = {1, 2, 3}
        /\ referencedIds(folderData[u]) = {}
        /\ KeySet(folderData[u].allChats) = {"c2"}

\* C9: a global delete of a chat of allChats leaves no folder referring to
\* chatId and no record of chatId and ends in a save; the library a step
\* writes while it reclaims a record referred to by several folders holds
\* neither the record nor a reference.
C9_GlobalDeleteBoth ==
    /\ [](\A t \in Tabs : \A chatId \in KeySet(folderData[t].allChats) :
             LET res == removeChatFromFolder(folderData[t], chatId, NoFolder)
             IN  /\ res.saved
                 /\ chatId \notin referencedIds(res.lib)
                 /\ chatId \notin KeySet(res.lib.allChats)
                 /\ \A p \in PathSet(res.lib) :
                        IdSet(FolderAt(res.lib.folders, p).chatIds) =
                        IdSet(FolderAt(folderData[t].folders, p).chatIds) \ {chatId})
    /\ [][\A t \in Tabs : \A chatId \in Chats :
             (maktaba_folders' # maktaba_folders /\ SaveStep(t)
              /\ chatId \in KeySet(folderData[t].allChats)
              /\ chatId \notin KeySet(folderData'[t].allChats))
             => /\ chatId \notin KeySet(maktaba_folders'.lib.allChats)
                /\ chatId \notin referencedIds(maktaba_folders'.lib)]_vars

\* The stored library after a global delete of c1, which folders 2 and 3
\* referred to: both folders are left, neither refers to c1, c1 has no record.
C9_Witness ==
    /\ ops = 1
    /\ maktaba_folders.has
    /\ FolderIds(maktaba_folders.lib) = {1, 2, 3}
    /\ referencedIds(maktaba_folders.lib) = {}
    /\ KeySet(maktaba_folders.lib.allChats) = {"c2"}

\* The folders of the tree in depth-first order without their subfolders,
\* each with its depth.
Shallow(lib, paths) ==
    [k \in 1..Len(paths) |->
        LET f == FolderAt(lib.folders, paths[k])
        IN  [id |-> f.id, name |-> f.name, chatIds |-> f.chatIds,
             annotation |-> f.annotation, depth |-> Len(paths[k])]]

\* Path q lies in the subtree of path p.
InSubtree(q, p) == Len(q) >= Len(p) /\ SubSeq(q, 1, Len(p)) = p

\* The paths outside the subtree of p, in order.
RECURSIVE Outside(_, _)
Outside(paths, p) ==
    IF paths = <<>> THEN <<>>
    ELSE IF InSubtree(Head(paths), p) THEN Outside(Tail(paths), p)
         ELSE <<Head(paths)>> \o Outside(Tail(paths), p)

\* C10: deleteFolder(id) of a folder of the tree leaves the folders outside
\* its subtree, in their order and at their depth, and nothing else, leaves
\* allChats as it was, and every recorded chat referred to only inside the
\* subtree is in findUnlinked afterwards.
C10_DeleteFolderSubtree ==
    \A t \in Tabs : \A id \in FolderIds(folderData[t]) :
        LET before == folderData[t]
            after == deleteFolder(before, id).lib
            p == getFolderContext(id, before.folders)
            kept == Outside(AllPaths(before), p)
            inside == UNION {IdSet(FolderAt(before.folders, q).chatIds) :
                                q \in {r \in PathSet(before) : InSubtree(r, p)}}
            outside == UNION {IdSet(FolderAt(before.folders, q).chatIds) :
                                q \in {r \in PathSet(before) : ~InSubtree(r, p)}}
        IN  /\ Shallow(after, AllPaths(after)) = Shallow(before, kept)
            /\ after.allChats = before.allChats
            /\ \A chatId \in (inside \ outside) \cap KeySet(before.allChats) :
                   Includes(findUnlinked(after), chatId)

\* A tab has deleted folder 1 with its subfolder 2 and then folder 3: no
\* folder is left, both records are, and c1, which folders 2 and 3 referred
\* to, is unlinked.
C10_Witness ==
    \E t \in Tabs :
        /\ ops = 2
        /\ folderData[t].folders = <<>>
        /\ maktaba_folders = Present(folderData[t])
        /\ findUnlinked(folderData[t]) = <<"c1", "c2">>

\* C5 as stated: once the user's edits have stopped and every answer has
\* been delivered, the folderData of every tab is the stored library.
C5_Convergence ==
    <>[](\A t \in Tabs : inbox[t] = <<>> /\ folderData[t] = Persisted)

\* C5, amended: once the user's edits have stopped and every answer has been
\* delivered, the folderData of every tab that holds no change of its own
\* that was never written is the stored library.
C5_ConvergenceOfSynced ==
    <>[](\A t \in Tabs :
            inbox[t] = <<>> /\ (local[t] = "none" => folderData[t] = Persisted))

\* After two edits of one tab everything is delivered and both tabs hold the
\* stored library, which is not the initial one.
C5_Witness ==
    /\ ops = 2
    /\ maktaba_folders.has
    /\ maktaba_folders.lib # NearFullLib
    /\ \A t \in Tabs : /\ inbox[t] = <<>>
                        /\ local[t] = "none"
                        /\ folderData[t] = maktaba_folders.lib
    /\ \E t \in Tabs : maktabaStats[t].renders = 3 /\ ~(\A u \in Tabs : maktabaStats[u].renders = 3)

\* How often x occurs in the sequence s.
Count(s, x) == Cardinality({k \in 1..Len(s) : s[k] = x})

\* No folder of lib holds a chat id twice.
NoDuplicates(lib) ==
    \A p \in PathSet(lib) : \A chatId \in IdSet(FolderAt(lib.folders, p).chatIds) :
        Count(FolderAt(lib.folders, p).chatIds, chatId) = 1

\* C11: no folder holds a chat id twice, in the folderData of any tab and in
\* the stored library; saveChatToFolder called twice with the same folder and
\* chat leaves one occurrence, and neither the handleMoveChat an open menu
\* offers nor archiveUnlinked yields a duplicate.
C11_NoDuplicateReference ==
    /\ NoDuplicates(Persisted)
    /\ \A t \in Tabs :
        /\ NoDuplicates(folderData[t])
        /\ \A folderId \in FolderIds(folderData[t]), chatId \in Chats,
              chatTitle \in Titles, tags \in TagInputs, annotation \in ChatNotes :
              LET once == saveChatToFolder(folderData[t], folderId, chatId,
                                           chatTitle, tags, annotation, now).lib
                  twice == saveChatToFolder(once, folderId, chatId,
                                            chatTitle, tags, annotation, now).lib
              IN  /\ NoDuplicates(twice)
                  /\ Count(FolderAt(twice.folders,
                               getFolderContext(folderId, twice.folders)).chatIds,
                           chatId) = 1
        /\ moveMenu[t].open =>
              \A targetFolderId \in moveMenu[t].targets :
                  NoDuplicates(handleMoveChat(folderData[t], moveMenu[t].chatId,
                                   moveMenu[t].sourceFolderId, targetFolderId).lib)
        /\ NoDuplicates(archiveUnlinked(folderData[t], now).lib)

\* A tab linked c1 to folder 1 and then again: the second call changed the
\* record only, and folder 1 holds c1 once.
C11_Witness ==
    \E t \in Tabs :
        /\ ops = 2
        /\ local[t] = "unsaved"
        /\ FolderIds(folderData[t]) = {1, 2, 3}
        /\ FolderAt(folderData[t].folders,
                    getFolderContext(1, folderData[t].folders)).chatIds = <<"c1">>
        /\ ChatAt(folderData[t].allChats, "c1").updatedAt = 5
        /\ ChatAt(maktaba_folders.lib.allChats, "c1").updatedAt = 4

\* C12: saveChatToFolder called for a folder whose chatIds already holds the
\* chat id is a no-op: it reports failure and the whole library, the chat's
\* allChats record included, is the one the tab held before the call.
C12_DuplicateLinkNoOp ==
    \A t \in Tabs :
        \A folderId \in FolderIds(folderData[t]), chatId \in Chats,
           chatTitle \in Titles, tags \in TagInputs, annotation \in ChatNotes :
            LET folder == FolderAt(folderData[t].folders,
                                   getFolderContext(folderId, folderData[t].folders))
                res == saveChatToFolder(folderData[t], folderId, chatId,
                                        chatTitle, tags, annotation, now)
            IN  Includes(folder.chatIds, chatId) =>
                    /\ ~res.saved
                    /\ res.lib = folderData[t]

\* Some folder of the list, or of the subfolders below it, holds chatId.
RECURSIVE RefersTo(_, _)
RefersTo(list, chatId) ==
    \E k \in 1..Len(list) :
        \/ Includes(list[k].chatIds, chatId)
        \/ RefersTo(list[k].subfolders, chatId)

\* The library is the one held by a tab or the stored one.
Libraries == {folderData[t] : t \in Tabs} \cup {Persisted}

\* C13: for every library, findUnlinked returns exactly the keys of allChats
\* that no folder at any depth holds in its chatIds, each once and in key
\* order, and none of the returned ids is referred to by a folder.
C13_FindUnlinkedExact ==
    \A lib \in Libraries :
        LET unlinked == findUnlinked(lib)
        IN  /\ IdSet(unlinked) = {id \in KeySet(lib.allChats) :
                                     ~RefersTo(lib.folders, id)}
            /\ \A id \in IdSet(unlinked) : Count(unlinked, id) = 1
            /\ unlinked = FilterNotIn(ObjectKeys(lib.allChats),
                                      {id \in Chats : RefersTo(lib.folders, id)})
            /\ \A id \in IdSet(unlinked) : ~RefersTo(lib.folders, id)

\* A tab holds a library where c1 is held by a subfolder only and c2 by no
\* folder: findUnlinked returns c2 alone.
C13_Witness ==
    \E t \in Tabs :
        /\ KeySet(folderData[t].allChats) = {"c1", "c2"}
        /\ \A k \in 1..Len(folderData[t].folders) :
                ~Includes(folderData[t].folders[k].chatIds, "c1")
        /\ RefersTo(folderData[t].folders, "c1")
        /\ findUnlinked(folderData[t]) = <<"c2">>

\* C14: archiveUnlinked, confirmed with at least one chat unlinked, leaves
\* allChats and every existing folder as they were, appends exactly one root
\* folder, without subfolders, whose chatIds is the list findUnlinked
\* returned, and leaves no chat unlinked.
C14_ArchiveAdditive ==
    \A t \in Tabs : \A time \in Times :
        LET before == folderData[t]
            unlinked == findUnlinked(before)
            res == archiveUnlinked(before, time)
            after == res.lib
            n == Len(before.folders)
        IN  Len(unlinked) > 0 =>
                /\ res.saved
                /\ after.allChats = before.allChats
                /\ Len(after.folders) = n + 1
                /\ SubSeq(after.folders, 1, n) = before.folders
                /\ after.folders[n + 1].chatIds = unlinked
                /\ after.folders[n + 1].subfolders = <<>>
                /\ findUnlinked(after) = <<>>

\* A tab has archived while c1 was in folders 2 and 3 and c2 in none: the
\* three folders are followed by the recovery folder holding c2 alone, both
\* records are kept and nothing is unlinked.
C14_Witness ==
    \E t \in Tabs :
        /\ ops = 1
        /\ Len(folderData[t].folders) = 3
        /\ SubSeq(folderData[t].folders, 1, 2) = NearFullLib.folders
        /\ folderData[t].folders[3].name = RecoveredNameLen
        /\ folderData[t].folders[3].chatIds = <<"c2">>
        /\ folderData[t].allChats = NearFullLib.allChats
        /\ findUnlinked(folderData[t]) = <<>>

\* The records whose id is in the set, in their order.
RECURSIVE KeepChats(_, _)
KeepChats(allChats, ids) ==
    IF allChats = <<>> THEN <<>>
    ELSE IF Head(allChats).id \in ids
         THEN <<Head(allChats)>> \o KeepChats(Tail(allChats), ids)
         ELSE KeepChats(Tail(allChats), ids)

\* C15: pruneUnlinked, confirmed with at least one chat unlinked, deletes
\* from allChats exactly the ids findUnlinked returned: no chat is unlinked
\* afterwards, every record some folder refers to is kept with its data, and
\* the folder tree is as it was.
C15_PruneExact ==
    \A t \in Tabs :
        LET before == folderData[t]
            unlinked == findUnlinked(before)
            res == pruneUnlinked(before)
            after == res.lib
        IN  Len(unlinked) > 0 =>
                /\ res.saved
                /\ KeySet(after.allChats) = KeySet(before.allChats) \ IdSet(unlinked)
                /\ findUnlinked(after) = <<>>
                /\ after.allChats =
                       KeepChats(before.allChats,
                                 {id \in Chats : RefersTo(before.folders, id)})
                /\ after.folders = before.folders
                /\ after.pinnedSearches = before.pinnedSearches

\* A tab has pruned while c1 was in folders 2 and 3 and c2 in none: the
\* record of c1 is kept as stored, the record of c2 is gone, the folders are
\* the stored ones and the pruned library has been written.
C15_Witness ==
    \E t \in Tabs :
        /\ ops = 1
        /\ folderData[t].folders = NearFullLib.folders
        /\ folderData[t].allChats = <<ChatAt(NearFullLib.allChats, "c1")>>
        /\ maktaba_folders = Present(folderData[t])

\* Some folder of the library refers to a chat id that allChats lacks.
Dangling(lib) == \E id \in Chats : RefersTo(lib.folders, id) /\ id \notin KeySet(lib.allChats)

\* C16: when some folder refers to a chat id absent from allChats, then after
\* a pruneUnlinked pass, and after an archiveUnlinked pass, no folder refers
\* to a chat id absent from allChats.
C16_DanglingSelfHeal ==
    \A t \in Tabs :
        Dangling(folderData[t]) =>
            /\ ~Dangling(pruneUnlinked(folderData[t]).lib)
            /\ \A time \in Times : ~Dangling(archiveUnlinked(folderData[t], time).lib)

\* C17: the notification caused by a tab's own accepted write, whenever it
\* is delivered to that tab and whatever the tab has done since the write,
\* leaves the tab's folderData as it is and refreshes nothing.
C17_OwnNotificationFiltered ==
    [][\A t \in Tabs :
          (Notified(t) /\ Head(inbox[t]).by = t) =>
              /\ folderData'[t] = folderData[t]
              /\ maktabaStats'[t].renders = maktabaStats[t].renders]_vars

\* C18: when two tabs holding the same library each make a different edit
\* and both writes are accepted, the stored library is the one of the later
\* write, and once both notifications have been delivered to both tabs each
\* tab's folderData is that library: the earlier tab's edit is in neither.
C18_LastWriteWins ==
    /\ [][\A t \in Tabs :
             (SaveStep(t) /\ maktaba_folders' # maktaba_folders) =>
                 /\ maktaba_folders' = Present(folderData'[t])
                 /\ \A u \in Tabs :
                       /\ inbox'[u] # <<>>
                       /\ inbox'[u][Len(inbox'[u])] = Changed(folderData'[t], t)]_vars
    /\ [](\A t \in Tabs :
             (inbox[t] = <<>> /\ local[t] = "none") => folderData[t] = Persisted)

\* Both tabs loaded the stored library; one made an edit that was written,
\* then the other, not yet notified, unlinked c1 from folder 3, which was
\* written too.  Every notification has been delivered (the later writer was
\* set back to the earlier write by the first one, then forward by its own):
\* storage and both tabs hold the stored library with that unlink alone.
C18_Witness ==
    /\ ops = 2
    /\ asides = 0
    /\ maktaba_folders = Present(removeChatFromFolder(NearFullLib, "c1", 3).lib)
    /\ \A t \in Tabs : /\ inbox[t] = <<>>
                        /\ folderData[t] = maktaba_folders.lib
    /\ \E A, B \in Tabs : /\ maktabaStats[A].renders = 3
                           /\ maktabaStats[B].renders = 4

\* Tab t receives the answer of the get that a regain of focus issued.
Reloaded(t) ==
    /\ inbox[t] # <<>>
    /\ Head(inbox[t]).type = "get"
    /\ Head(inbox[t]).by = "focus"
    /\ inbox'[t] = Tail(inbox[t])

\* The library that a get result stands for.
Reread(msg) == IF msg.has THEN msg.lib ELSE EmptyLib

\* C19: after a regain of focus the library is read again and compared with
\* folderData as a notification is: a snapshot identical to folderData
\* refreshes nothing (renders unchanged), a different one replaces folderData
\* and refreshes the list once.
C19_FocusReloadCompares ==
    [][\A t \in Tabs : Reloaded(t) =>
          LET snapshot == Reread(Head(inbox[t]))
          IN  IF folderData[t] # snapshot
              THEN /\ folderData'[t] = snapshot
                   /\ maktabaStats'[t].renders = maktabaStats[t].renders + 1
              ELSE /\ folderData'[t] = folderData[t]
                   /\ maktabaStats'[t].renders = maktabaStats[t].renders]_vars

\* C20: each notification whose snapshot is identical to folderData is
\* discarded and counted: folderData is kept and maktabaStats.skips of the
\* tab grows by one; no other step changes skips, so that skips is the
\* number of notifications the tab has discarded since it started.
C20_SkipsCounted ==
    [][\A t \in Tabs :
          IF Notified(t) /\ Head(inbox[t]).lib = folderData[t]
          THEN /\ folderData'[t] = folderData[t]
               /\ maktabaStats'[t].skips = maktabaStats[t].skips + 1
          ELSE maktabaStats'[t].skips = maktabaStats[t].skips]_vars

\* Tab t receives the answer of a get, issued at startup or at a regain of
\* focus.
Loaded(t) ==
    /\ inbox[t] # <<>>
    /\ Head(inbox[t]).type = "get"
    /\ inbox'[t] = Tail(inbox[t])

\* C21: when a get, at startup or at any later reload, finds no entry under
\* maktaba_folders, folderData becomes the empty library (no folders, no
\* chats, no pinned searches) and the load completes with a refresh.
C21_AbsentLoadsEmpty ==
    [][\A t \in Tabs :
          (Loaded(t) /\ ~Head(inbox[t]).has) =>
              /\ folderData'[t] = [folders |-> <<>>, allChats |-> <<>>,
                                   pinnedSearches |-> <<>>]
              /\ maktabaStats'[t].renders = maktabaStats[t].renders + 1]_vars

\* A tab regained focus while storage was empty, created a folder before the
\* answer came, and the answer emptied its folderData again: storage holds
\* the folder, the tab holds the empty library.
C21_Witness ==
    \E t \in Tabs :
        /\ asides = 1
        /\ ops = 1
        /\ maktaba_folders.has
        /\ Len(maktaba_folders.lib.folders) = 1
        /\ folderData[t] = EmptyLib
        /\ maktabaStats[t].renders = 3
        /\ Len(inbox[t]) = 1
        /\ Head(inbox[t]).by = t

\* Text s holds sub somewhere, letter case aside.
Contains(s, sub) ==
    \E i \in 0..Len(s) : \E j \in i..Len(s) :
        toLowerCase(SubSeq(s, i + 1, j)) = toLowerCase(sub)

\* What a token asks of a chat.
TokenHolds(chat, token) ==
    LET inText == Contains(chat.title, token.val) \/ Contains(chat.annotation, token.val)
        inTags == \E i \in 1..Len(chat.tags) : Contains(chat.tags[i], token.val)
    IN  /\ token.type = "text" => inText
        /\ token.type = "not_text" => ~inText
        /\ token.type = "tag" => inTags
        /\ token.type = "not_tag" => ~inTags

\* C22: a chat is listed for a query exactly when every token of the query
\* holds of it: text in the title or the annotation, tag in one of its tags,
\* not_text and not_tag the absence, letter case aside.  The query
\* #work -"old project" lists the chats tagged work whose title and
\* annotation lack the phrase and no chat without the tag.
C22_MatchIsConjunction ==
    [][/\ \A k \in 1..Len(SearchLibrary) :
             LET chat == SearchLibrary[k]
             IN  /\ isMatch(chat, tokens') <=>
                        \A i \in 1..Len(tokens') : TokenHolds(chat, tokens'[i])
                 /\ chat.id \in {matchedChats'[n] : n \in 1..Len(matchedChats')}
                        <=> \A i \in 1..Len(tokens') : TokenHolds(chat, tokens'[i])
       /\ query = ExampleQuery =>
             /\ tokens' = << [type |-> "tag", val |-> <<"w", "o", "r", "k">>],
                             [type |-> "not_text",
                              val |-> <<"o", "l", "d", " ", "p", "r", "o", "j", "e", "c", "t">>] >>
             /\ matchedChats' = <<"k1", "k4">>]_vars

\* The example query has been searched: of the three chats tagged work the
\* two without the phrase are listed; k2 has it in its title, k3 and k5 lack
\* the tag.
C22_Witness ==
    /\ query = ExampleQuery
    /\ Len(tokens) = 2
    /\ matchedChats = <<"k1", "k4">>

\* The characters of s are all outside the set.
NoneOf(s, set) == \A k \in 1..Len(s) : s[k] \notin set

\* s is a quoted phrase: a quote, one or more other characters, a quote.
IsPhrase(s) ==
    /\ Len(s) >= 3
    /\ s[1] = "\""
    /\ s[Len(s)] = "\""
    /\ NoneOf(SubSeq(s, 2, Len(s) - 1), {"\""})

\* s is an unquoted word: one or more characters, no space and no quote, and
\* no minus in front.
IsWord(s) ==
    /\ Len(s) >= 1
    /\ NoneOf(s, {" ", "\""})
    /\ s[1] # "-"

\* The token the claim gives to a phrase or a word, negated or not.
Classified(s, negated) ==
    LET lower == toLowerCase(s)
    IN  IF IsPhrase(s)
        THEN [type |-> IF negated THEN "not_text" ELSE "text",
              val |-> SubSeq(lower, 2, Len(s) - 1)]
        ELSE IF s[1] = "#"
             THEN [type |-> IF negated THEN "not_tag" ELSE "tag", val |-> Tail(lower)]
             ELSE [type |-> IF negated THEN "not_text" ELSE "text", val |-> lower]

\* s is one phrase or one word, with or without a minus in front.
IsLexeme(s) ==
    \/ IsPhrase(s) \/ IsWord(s)
    \/ (Len(s) >= 2 /\ s[1] = "-" /\ (IsPhrase(Tail(s)) \/ IsWord(Tail(s))))

\* C23: the tokenizer reads the query from left to right.  A quoted phrase is
\* text, or not_text after a minus, also when it begins with #; an unquoted
\* word that begins with # is tag, or not_tag after a minus, its value
\* without the #; any other unquoted word is text, or not_text after a minus.
\* The tokens of a phrase or word followed by a space and more text are its
\* token followed by the tokens of the rest.
C23_TokenClasses ==
    [][/\ \A k \in 1..Len(tokens') :
             tokens'[k].type \in {"text", "not_text", "tag", "not_tag"}
       /\ (IsPhrase(query) \/ IsWord(query)) =>
             tokens' = <<Classified(query, FALSE)>>
       /\ (Len(query) >= 2 /\ query[1] = "-"
              /\ (IsPhrase(Tail(query)) \/ IsWord(Tail(query)))) =>
             tokens' = <<Classified(Tail(query), TRUE)>>
       /\ \A n \in 1..(Len(query) - 1) :
             (IsLexeme(SubSeq(query, 1, n)) /\ query[n + 1] = " ") =>
                 tokens' = Tokenize(SubSeq(query, 1, n))
                              \o Tokenize(SubSeq(query, n + 2, Len(query)))]_vars

\* The query -"#a" has been searched: one token, not_text with the value #a.
C23_Witness ==
    /\ query = <<"-", "\"", "#", "a", "\"">>
    /\ tokens = << [type |-> "not_text", val |-> <<"#", "a">>] >>

\* A tag in canonical form: one # and then a body that is not empty, does not
\* begin with # and neither begins nor ends with white space.
Canonical(tag) ==
    /\ Len(tag) >= 2
    /\ tag[1] = "#"
    /\ tag[2] \notin {"#", " "}
    /\ tag[Len(tag)] # " "

\* C24: every tag stored in a chat's record, by quick save, by the folder's
\* save button, by link import or by editChatTags, is canonical; input that
\* is empty or only # and white space is never stored.
C24_TagsCanonical ==
    \A k \in 1..Len(chatTags) : Canonical(chatTags[k])

\* C25: pinnedSearches never holds more than 5 entries, in any tab or in
\* storage, and a pin attempt while a tab holds 5 entries leaves its library
\* as it is and writes nothing.
C25_PinLimit ==
    /\ Len(Persisted.pinnedSearches) <= 5
    /\ \A t \in Tabs :
        /\ Len(folderData[t].pinnedSearches) <= 5
        /\ \A q \in PinQueries, title \in PinTitles, time \in Times :
              LET res == pinCurrentSearch(folderData[t], q, title, time)
              IN  /\ Len(res.lib.pinnedSearches) <= 5
                  /\ Len(folderData[t].pinnedSearches) = 5 =>
                        (~res.saved /\ res.lib = folderData[t])

\* A tab pinned a fifth search at time 4 and tried another at time 5: storage
\* and the tab hold the five entries.
C25_Witness ==
    \E t \in Tabs :
        /\ ops = 2
        /\ now = 5
        /\ Len(folderData[t].pinnedSearches) = 5
        /\ folderData[t].pinnedSearches[5].id = 4
        /\ maktaba_folders = Present(folderData[t])
        /\ maktabaStats[t].renders = 3

\* C26: starting from an empty library, after any sequence of createNewFolder,
\* handleMoveFolder, deleteFolder and archiveUnlinked no two folder nodes
\* anywhere in the tree share an id, in every tab's library and in storage.
UniqueFolderIds(lib) ==
    \A p, q \in PathSet(lib) :
        FolderAt(lib.folders, p).id = FolderAt(lib.folders, q).id => p = q

C26_FolderIdsUnique ==
    /\ \A t \in Tabs : UniqueFolderIds(folderData[t])
    /\ UniqueFolderIds(maktaba_folders.lib)

\* C27: importDataFromJSON of a document that is not parseable, or that
\* lacks a folders sequence or an allChats dictionary, is rejected: the
\* in-memory library and the persisted library are unchanged and no write is
\* issued (no notification follows).
InvalidSchema(file) ==
    \/ file.syntax # "json"
    \/ Get(file.value, "folders").type # "array"
    \/ Get(file.value, "allChats").type # "object"

C27_InvalidImportRejected ==
    [][upload' # upload /\ InvalidSchema(upload'.file)
        => /\ folderData' = folderData
           /\ notLibrary' = notLibrary
           /\ maktaba_folders' = maktaba_folders
           /\ inbox' = inbox]_vars

\* C28: round trip.  For every library L, importing (confirmed) the document
\* that exportDataAsJSON makes of L leaves the importing tab with an
\* in-memory library equal to L.
ExportedLibraries ==
    {folderData[s] : s \in Tabs} \cup {SmallLib, PinsLib, NearFullLib}

C28_RoundTrip ==
    [][\A t \in Tabs, L \in ExportedLibraries :
          /\ upload' # upload
          /\ upload'.tab = t
          /\ upload'.confirmed
          /\ upload'.file = File("json", stringify(L))
          => /\ folderData'[t] = L
             /\ notLibrary'[t] = Undefined]_vars

\* Tab t1 exported the stored library, a library with pins was imported and
\* reached t2, and t2 then imported the file of t1.
C28_Witness ==
    /\ download["t1"] = File("json", stringify(SmallLib))
    /\ upload = [tab |-> "t2", file |-> download["t1"], confirmed |-> TRUE, at |-> 2]
    /\ folderData["t2"] = SmallLib
    /\ maktaba_folders = Present(SmallLib)
    /\ maktabaStats["t2"].renders = 3

\* C29: once chrome.runtime.id is absent in a tab, every further operation
\* of the tab is a no-op and no throw: loadData and the mutating operations
\* raise no error, leave the tab's in-memory library unchanged, and (when
\* every tab is in that state) storage is neither read nor written.
C29_TornDownNoOp ==
    [][/\ \A t \in Tabs :
            ~runtimeId[t] => /\ folderData'[t] = folderData[t]
                             /\ uncaught'[t] = uncaught[t]
       /\ (\A t \in Tabs : ~runtimeId[t])
            => /\ maktaba_folders' = maktaba_folders
               /\ \A t \in Tabs : Len(inbox'[t]) <= Len(inbox[t])]_vars

\* The records that libraries a and b both hold have the same timestamp.
SameTimestamps(a, b) ==
    \A id \in KeySet(a.allChats) \cap KeySet(b.allChats) :
        ChatAt(b.allChats, id).timestamp = ChatAt(a.allChats, id).timestamp

\* Every record of the library was updated no earlier than it was created.
UpdatedAfterCreated(lib) ==
    \A k \in 1..Len(lib.allChats) : lib.allChats[k].updatedAt >= lib.allChats[k].timestamp

\* C30 as stated: while a chat record exists in allChats its creation
\* timestamp never changes, in the library of every tab and in storage.
C30_TimestampNeverChanges ==
    [][/\ \A t \in Tabs : SameTimestamps(folderData[t], folderData'[t])
       /\ SameTimestamps(maktaba_folders.lib, maktaba_folders'.lib)]_vars

\* C30, amended: an operation of a tab (saveChatToFolder, renameChat,
\* editChatTags, editChatAnnotation) keeps the timestamp of every record the
\* tab's library held before and holds after, and a record it changes gets
\* updatedAt = the current time; and in every state updatedAt >= timestamp for
\* every record of every tab's library and of the stored library.
C30_TimestampKept ==
    /\ [][ops' # ops =>
            \A t \in Tabs :
                /\ SameTimestamps(folderData[t], folderData'[t])
                /\ \A id \in KeySet(folderData[t].allChats)
                                \cap KeySet(folderData'[t].allChats) :
                       ChatAt(folderData'[t].allChats, id) # ChatAt(folderData[t].allChats, id)
                           => ChatAt(folderData'[t].allChats, id).updatedAt = now']_vars
    /\ [](/\ \A t \in Tabs : UpdatedAfterCreated(folderData[t])
          /\ UpdatedAfterCreated(maktaba_folders.lib))

\* Tab t1 renamed chat c1 and then edited its tags one clock tick later: the
\* record keeps timestamp 1 and has updatedAt 5, in t1 and in storage.
C30_Witness ==
    /\ ops = 2
    /\ "c1" \in KeySet(folderData["t1"].allChats)
    /\ ChatAt(folderData["t1"].allChats, "c1") = ChatEntry("c1", 6, <<3>>, 0, 1, 5)
    /\ maktaba_folders = Present(folderData["t1"])

\* The subfolders of folder id, the root folders for NoFolder.
Children(lib, id) ==
    IF id = NoFolder THEN lib.folders
    ELSE FolderAt(lib.folders, getFolderContext(id, lib.folders)).subfolders

\* The ids of a sequence of folders.
IdsOf(list) == [k \in 1..Len(list) |-> list[k].id]

\* The id of the folder whose collection holds the folder at path p.
ParentId(lib, p) ==
    IF Len(p) = 1 THEN NoFolder ELSE FolderAt(lib.folders, SubSeq(p, 1, Len(p) - 1)).id

\* The folders of the tree without their subfolders, each counted once.
ShallowSet(lib) ==
    {[id |-> FolderAt(lib.folders, p).id, name |-> FolderAt(lib.folders, p).name,
      chatIds |-> FolderAt(lib.folders, p).chatIds,
      annotation |-> FolderAt(lib.folders, p).annotation] : p \in PathSet(lib)}

\* The destinations of a move of folder A that the claim is about.
Destinations(lib, A) ==
    {NoFolder} \cup
    {B \in FolderIds(lib) :
        /\ B # A
        /\ ~isDescendant(FolderAt(lib.folders, getFolderContext(A, lib.folders)), B)}

\* C31: handleMoveFolder(A, dest), with dest 'root' or an existing folder
\* outside the subtree of A, takes A out of the collection of its parent and
\* makes it the last child of dest (the last root folder); the folder ids of
\* the tree, the name, chatIds and annotation of every folder, the subtree of
\* A, the children of every other folder and allChats are as before.
C31_MoveFolderFrame ==
    \A t \in Tabs : \A A \in FolderIds(folderData[t]) :
      \A dest \in Destinations(folderData[t], A) :
        LET before == folderData[t]
            after == handleMoveFolder(before, A, dest).lib
            p == getFolderContext(A, before.folders)
            moved == FolderAt(before.folders, p)
            from == ParentId(before, p)
            left == Splice(IdsOf(Children(before, from)), p[Len(p)])
        IN  /\ Children(after, dest) # <<>>
            /\ Children(after, dest)[Len(Children(after, dest))] = moved
            /\ IdsOf(Children(after, dest)) =
                  Append(IF from = dest THEN left ELSE IdsOf(Children(before, dest)), A)
            /\ from # dest => IdsOf(Children(after, from)) = left
            /\ \A id \in FolderIds(before) \ {from, dest} :
                   IdsOf(Children(after, id)) = IdsOf(Children(before, id))
            /\ from # NoFolder /\ dest # NoFolder
                   => IdsOf(after.folders) = IdsOf(before.folders)
            /\ FolderIds(after) = FolderIds(before)
            /\ Len(AllPaths(after)) = Len(AllPaths(before))
            /\ ShallowSet(after) = ShallowSet(before)
            /\ after.allChats = before.allChats
            /\ after.pinnedSearches = before.pinnedSearches

\* Tab t1 has moved folder 1, with its subfolder 2, under folder 3 and the
\* tree is stored: 3 > 1 > 2.
C31_Witness ==
    /\ ops = 1
    /\ IdsOf(folderData["t1"].folders) = <<3>>
    /\ IdsOf(Children(folderData["t1"], 3)) = <<1>>
    /\ IdsOf(Children(folderData["t1"], 1)) = <<2>>
    /\ maktaba_folders = Present(folderData["t1"])

\* Path p comes before path q in a depth-first walk of the tree.
Before(p, q) ==
    \/ Len(p) < Len(q) /\ SubSeq(q, 1, Len(p)) = p
    \/ \E i \in 1..Len(p) :
          /\ i <= Len(q)
          /\ SubSeq(p, 1, i - 1) = SubSeq(q, 1, i - 1)
          /\ p[i] < q[i]

\* C32: in every search rendered by a tab, the folders listed for the badges
\* of a matched chat are exactly the folders of the tab's tree, at any depth,
\* whose chatIds holds the chat's id, each once and in depth-first order; and
\* in the library with c1 linked only to the root folder Research and tagged
\* strategy, the search #strategy lists c1 alone with the one badge Research.
C32_BadgesAreHoldingFolders ==
    [][\A t \in Tabs : RenderSearchResults(t) =>
          /\ \A n \in 1..Len(matchedChats') :
                LET m == matchedChats'[n]
                IN  /\ {m.folders[k] : k \in 1..Len(m.folders)} =
                           {p \in PathSet(folderData[t]) :
                               m.chat \in IdSet(FolderAt(folderData[t].folders, p).chatIds)}
                    /\ \A j, k \in 1..Len(m.folders) :
                           j < k => Before(m.folders[j], m.folders[k])
          /\ (folderData[t] = ResearchLib /\ query' = StrategyQuery) =>
                /\ Len(matchedChats') = 1
                /\ matchedChats'[1].chat = "c1"
                /\ Len(matchedChats'[1].folders) = 1
                /\ FolderAt(folderData[t].folders, matchedChats'[1].folders[1]).id = 1
                /\ FolderAt(folderData[t].folders, matchedChats'[1].folders[1]).name = 8
      ]_vars

\* A search has listed c1 with two badges, the first for a subfolder and the
\* second for a root folder after it.
C32_Witness ==
    /\ Len(matchedChats) > 0
    /\ matchedChats[1].chat = "c1"
    /\ matchedChats[1].folders = << <<1, 1>>, <<2>> >>

\* Libraries a and b differ at most in the characters of the titles and
\* notes of their chats, and these have the same bytes under bytesOf.
SameButTexts(a, b, bytesOf(_)) ==
    /\ a.folders = b.folders
    /\ a.pinnedSearches = b.pinnedSearches
    /\ Len(a.allChats) = Len(b.allChats)
    /\ \A k \in 1..Len(a.allChats) :
          /\ a.allChats[k].id = b.allChats[k].id
          /\ a.allChats[k].tags = b.allChats[k].tags
          /\ a.allChats[k].timestamp = b.allChats[k].timestamp
          /\ a.allChats[k].updatedAt = b.allChats[k].updatedAt
          /\ bytesOf(a.allChats[k].title) = bytesOf(b.allChats[k].title)
          /\ bytesOf(a.allChats[k].annotation) = bytesOf(b.allChats[k].annotation)

\* The sections of a log other than meta.
Sections(log) == <<log.storage, log.counts, log.activity, log.integrity>>

LogOf(t) == generateDiagnosticLog(folderData[t], maktabaStats[t], now)

\* Tab t has downloaded the log of the library it holds.
Logged(t) == download[t] = File("json", LogOf(t))

\* C33 as stated: two tabs with the same session counters that have
\* downloaded the logs of their libraries, which differ only in the
\* characters of chat titles and notes of the same byte length, have logs with the same storage, counts, activity and integrity
\* sections.
C33_SameLengthSameLog ==
    \A s, t \in Tabs :
        (Logged(s) /\ Logged(t)
            /\ SameButTexts(folderData[s], folderData[t], Utf8Bytes)
            /\ maktabaStats[s] = maktabaStats[t])
        => Sections(download[s].value) = Sections(download[t].value)

\* C33: two tabs with the same session counters that have downloaded the
\* logs of their libraries, which differ only in the characters of chat
\* titles and notes, each with the same number of bytes in its JSON text
\* (a quotation mark or backslash counts twice), have logs with the same storage, counts,
\* activity and integrity sections.
C33_SameJsonLengthSameLog ==
    \A s, t \in Tabs :
        (Logged(s) /\ Logged(t)
            /\ SameButTexts(folderData[s], folderData[t], JsonTextBytes)
            /\ maktabaStats[s] = maktabaStats[t])
        => Sections(download[s].value) = Sections(download[t].value)

\* Both tabs have downloaded the log of their library; the libraries differ
\* in the title of c1, whose JSON text has three bytes in both.
C33_Witness ==
    /\ folderData["t1"].allChats[1].title = <<"a", "\"">>
    /\ folderData["t2"].allChats[1].title = <<"\"", "a">>
    /\ SameButTexts(folderData["t1"], folderData["t2"], JsonTextBytes)
    /\ maktabaStats["t1"] = maktabaStats["t2"]
    /\ \A t \in Tabs : Logged(t)

\* The callback of the get that init() issued has not yet run in tab t: the
\* tab still holds the placeholder folderData was declared with.
Loading(t) ==
    \E k \in 1..Len(inbox[t]) : inbox[t][k].type = "get" /\ inbox[t][k].by = "init"

\* C34: the stored entry is never written by a tab whose initial read has
\* not completed: in every step in which a tab's saveAndRefresh changes the
\* entry, the callback of that tab's first get has already run.
C34_NoWriteWhileLoading ==
    [][\A t \in Tabs :
          (SaveStep(t) /\ maktaba_folders' # maktaba_folders) => ~Loading(t)]_vars

\* C35: a click on an item of the move-folder menu never removes a folder:
\* the folder ids of the tab's tree are the same after handleMoveFolder as
\* before it, also when the destination was deleted from the tab's library
\* by a change notification after the menu was opened, and the library the
\* call writes to storage contains the moved folder.
C35_MoveFolderKeepsFolders ==
    [][\A t \in Tabs : ClickMoveFolderMenu(t) =>
          /\ FolderIds(folderData'[t]) = FolderIds(folderData[t])
          /\ maktaba_folders' # maktaba_folders =>
                moveFolderMenu[t].folderId \in FolderIds(maktaba_folders'.lib)]_vars

\* C36: when a tab chooses a sort order in the sort menu of a folder that its
\* library holds, the folder has that sort order in the tab's library after
\* the step, and in the library that the step writes to storage, also when
\* folderData was replaced between the opening of the menu and the choice.
C36_SortOrderSet ==
    [][\A t \in Tabs : \A sortMethod \in SortMethods :
          (ChooseSortAs(t, sortMethod)
              /\ sortMenu[t].folderId \in FolderIds(folderData[t]))
          => /\ SortOrderOf(folderData'[t], sortMenu[t].folderId) = sortMethod
             /\ maktaba_folders' # maktaba_folders =>
                   SortOrderOf(maktaba_folders'.lib, sortMenu[t].folderId) = sortMethod
      ]_vars

\* The folder list with the chatIds of the folders in ids emptied.
RECURSIVE BlankChatIds(_, _)
BlankChatIds(list, ids) ==
    [k \in 1..Len(list) |->
        [list[k] EXCEPT
            !.chatIds = IF list[k].id \in ids THEN <<>> ELSE @,
            !.subfolders = BlankChatIds(@, ids)]]

\* chatIds of the folder with this id
ChatIdsOf(lib, id) == FolderAt(lib.folders, getFolderContext(id, lib.folders)).chatIds

\* The ids a stale menu can pass: folders of any tab or of the stored
\* library, and the id of no folder.
KnownFolderIds ==
    UNION {FolderIds(folderData[u]) : u \in Tabs} \cup FolderIds(Persisted)
        \cup {NoFolder}

\* C37: in every tab, for every chat and every two folder ids:
\* handleMoveChat between two distinct folders of the tab's library leaves
\* allChats, the pins and every folder but the chatIds of source and target
\* as they were; afterwards the target holds the chat exactly once and the
\* source does not hold it, and every chat some folder held is still held by
\* a folder.  With a source or target that the library does not have, the
\* library is unchanged and nothing is saved.
C37_MoveChatFrame ==
    \A t \in Tabs : \A chatId \in Chats : \A source, target \in KnownFolderIds :
        LET lib == folderData[t]
            res == handleMoveChat(lib, chatId, source, target)
        IN  IF source \in FolderIds(lib) /\ target \in FolderIds(lib)
            THEN source # target =>
                    /\ res.lib.allChats = lib.allChats
                    /\ res.lib.pinnedSearches = lib.pinnedSearches
                    /\ BlankChatIds(res.lib.folders, {source, target}) =
                           BlankChatIds(lib.folders, {source, target})
                    /\ Count(ChatIdsOf(res.lib, target), chatId) = 1
                    /\ ~Includes(ChatIdsOf(res.lib, source), chatId)
                    /\ referencedIds(lib) \subseteq referencedIds(res.lib)
            ELSE res.lib = lib /\ ~res.saved

\* Tab t1 has moved c1 from folder 3 to folder 1, which is stored: folder 1
\* holds c1, folder 3 holds nothing, folder 2 still holds c1.
C37_Witness ==
    /\ ops = 1
    /\ maktaba_folders = Present(folderData["t1"])
    /\ 3 \in FolderIds(folderData["t1"])
    /\ ChatIdsOf(folderData["t1"], 1) = <<"c1">>
    /\ ChatIdsOf(folderData["t1"], 2) = <<"c1">>
    /\ ChatIdsOf(folderData["t1"], 3) = <<>>

\* C38: in every state the folderData of every tab has its three components:
\* folders, allChats and pinnedSearches.
C38_ThreeComponents ==
    \A t \in Tabs : DOMAIN folderData[t] = {"folders", "allChats", "pinnedSearches"}

\* Tab t has read a backup file in this step.
ImportStep(t) ==
    /\ ops' = ops + 1
    /\ upload'.at = ops'
    /\ upload'.tab = t

\* C39: in every step in which a tab's import ends with the alert of a
\* successful restore, the stored library is the imported document; and an
\* import of a document that the quota gatekeeper rejects does not end with
\* that alert and leaves the tab's folderData as it was.
C39_RestoredMeansStored ==
    [][\A t \in Tabs : ImportStep(t) =>
          LET end == importDataFromJSON(upload'.file, upload'.confirmed)
              document == AsFolderData(upload'.file.value)
          IN  /\ end = "restored" => maktaba_folders' = Present(document)
              /\ (upload'.confirmed /\ QuotaExceeded(bytesInUse(document)))
                    => /\ end # "restored"
                       /\ folderData'[t] = folderData[t]
      ]_vars

====
